---------------------------- MODULE Spec2Model ----------------------------
(***************************************************************************)
(* Fund custody and verification protocol of the data bounty marketplace: *)
(* EscrowManager (the Custodian), BountyRegistry (the Lifecycle Manager)   *)
(* and DataRegistry (the Coordinator), as state machines over one ledger.  *)
(*                                                                         *)
(* Every external call is one atomic step.  For each entry point f the     *)
(* operator f_err gives the error the call ends with (the source's checks  *)
(* in their order, "ok" when none fires); a call that reverts leaves the   *)
(* whole ledger unchanged.                                                 *)
(*                                                                         *)
(* Amounts are counted in units of 0.005 ether, so that MIN_REWARD         *)
(* (0.01 ether) is 2 and a positive value below it exists.  Fields that    *)
(* are written once and never read by any contract (title, description,    *)
(* metadata, createdAt, submittedAt, releasedAt, verifiedAt) are left out  *)
(* of the records.                                                         *)
(***************************************************************************)
EXTENDS Integers, Sequences, FiniteSets, TLC

\* ------------------------------------------------------------- bounds
MaxBounties == 1
MaxSubmissions == 2
MaxEscrowIds == 2
MaxTime == 3
MaxRequests == 2

\* ---------------------------------------------------------- addresses
Zero == "0x0"
Owner == "owner"
Creator == "creator"
Contributor == "contributor"
Operator == "operator"
Oracle == "oracle"
EM == "EscrowManager"
BR == "BountyRegistry"
DR == "DataRegistry"
FC == "FunctionsConsumer"

EOAs == {Owner, Creator, Contributor, Operator, Oracle}
Contracts == {EM, BR, DR, FC}
Addresses == {Zero} \cup EOAs \cup Contracts

BountyIds == 0 .. (MaxBounties - 1)
\* Ids the EscrowManager is called with directly; they include BountyIds.
EscrowIds == 0 .. (MaxEscrowIds - 1)
SubmissionIds == 0 .. (MaxSubmissions - 1)
\* Request ids handed out by the Functions router, in the order of the requests.
RequestIds == 1 .. MaxRequests
\* Attached values tried: none, below the minimum reward, the minimum reward.
Values == 0 .. 2

\* BountyRegistry.MIN_REWARD, in units of 0.005 ether
MIN_REWARD == 2

\* What every account holds at the start: one minimum reward and a top-up.
InitialFunds == MIN_REWARD + 1

VARIABLES
    now,                 \* block.timestamp
    balance,             \* the ledger's native balance of every address
    em_bountyRegistry,   \* EscrowManager.bountyRegistry
    em_dataRegistry,     \* EscrowManager.dataRegistry
    escrows,             \* EscrowManager.escrows
    totalDeposits,       \* EscrowManager.totalDeposits
    totalReleased,       \* EscrowManager.totalReleased
    totalRefunded,       \* EscrowManager.totalRefunded
    br_escrowManager,    \* BountyRegistry.escrowManager
    br_dataRegistry,     \* BountyRegistry.dataRegistry
    bounties,            \* BountyRegistry.bounties
    bountyIdCounter,     \* BountyRegistry._bountyIdCounter
    dr_functionsConsumer,\* DataRegistry.functionsConsumer
    submissions,         \* DataRegistry.submissions
    submissionIdCounter, \* DataRegistry._submissionIdCounter
    bountySubmissions,   \* DataRegistry.bountySubmissions
    paymentReleased,     \* number of PaymentReleased events per submission
    requestIdToSubmission, \* FunctionsConsumer.requestIdToSubmission
    requestArgs,         \* the arguments of each request sent to the DON
    vr_args,             \* source.js: args
    vr_pc,               \* source.js: where the run stands
    vr_gw,               \* source.js: the gateway in turn in fetchFromIPFS
    vr_schema,           \* source.js: schema
    vr_data,             \* source.js: data
    vr_requests,         \* the exchanges made through Functions.makeHttpRequest
    vr_result,           \* the bytes the run returned
    em_entered,          \* EscrowManager: the ReentrancyGuard is entered
    br_entered,          \* BountyRegistry: the ReentrancyGuard is entered
    em_transfer          \* the value transfer the EscrowManager is making

emVars == <<em_bountyRegistry, em_dataRegistry, escrows, totalDeposits,
            totalReleased, totalRefunded>>
brVars == <<br_escrowManager, br_dataRegistry, bounties, bountyIdCounter>>
drVars == <<dr_functionsConsumer, submissions, submissionIdCounter,
            bountySubmissions, paymentReleased>>
fcVars == <<requestIdToSubmission, requestArgs>>
vrVars == <<vr_args, vr_pc, vr_gw, vr_schema, vr_data, vr_requests,
            vr_result>>
rgVars == <<em_entered, br_entered, em_transfer>>
vars == <<now, balance, emVars, brVars, drVars, fcVars, vrVars, rgVars>>

\* ------------------------------------------------------------ ledger

\* Whether a plain value transfer to address a is accepted: EscrowManager's
\* receive() reverts, BountyRegistry and FunctionsConsumer have no receive or
\* fallback function, DataRegistry's receive() is empty and payable.
AcceptsValue(a) == a \notin {EM, BR, FC}

\* recipient.call{value: amount}("") made by contract from
CallValueOk(from, to, amount) == balance[from] >= amount /\ AcceptsValue(to)

Transfer(bal, from, to, amount) ==
    IF from = to THEN bal
    ELSE [bal EXCEPT ![from] = @ - amount, ![to] = @ + amount]

\* No value transfer is in progress.
NoTransfer == [to |-> Zero, bountyId |-> 0, amount |-> 0]

\* Between transactions no guard is entered and no call is in progress.
notEntered ==
    /\ em_entered = FALSE
    /\ br_entered = FALSE
    /\ em_transfer = NoTransfer

\* Faulty variant: a guard that lets every call in.
nonReentrant_err_open(entered) == "ok"

\* The nonReentrant modifier: a call that finds the guard of its contract
\* entered reverts before anything else is looked at.
nonReentrant_err(entered) ==
    IF entered THEN "ReentrancyGuardReentrantCall" ELSE "ok"

NoEscrow ==
    [depositor |-> Zero, amount |-> 0, status |-> "NONE"]

\* A bounty id that was never created reads as the zero record (status 0 is
\* DRAFT); likewise a submission id (status 0 is PENDING).
NoBounty ==
    [creator |-> Zero, schemaUri |-> "", reward |-> 0, deadline |-> 0,
     status |-> "DRAFT", maxSubmissions |-> 0, submissionCount |-> 0]

\* A request id the router has not handed out yet.
NoRequest == [cid |-> "", schemaUri |-> ""]

NoSubmission ==
    [bountyId |-> 0, contributor |-> Zero, cid |-> "", status |-> "PENDING"]

\* Mapping reads: an id outside the modelled range was never written.
escrowOf(bountyId) ==
    IF bountyId \in EscrowIds THEN escrows[bountyId] ELSE NoEscrow

bountyOf(bountyId) ==
    IF bountyId \in BountyIds THEN bounties[bountyId] ELSE NoBounty

submissionOf(submissionId) ==
    IF submissionId \in SubmissionIds THEN submissions[submissionId]
    ELSE NoSubmission

\* ------------------------------------------------------ EscrowManager
\* Each entry point is split into the error it ends with for a given
\* msg.sender (the checks in source order; "ok" when none fires) and the
\* record it leaves.  The registries call the same operators with
\* themselves as msg.sender.

\* Faulty variant: deposit that does not look at the existing escrow.
deposit_err_overwrite(sender, value, bountyId, depositor) ==
    IF sender # em_bountyRegistry THEN "Unauthorized"
    ELSE IF value = 0 THEN "InvalidAmount"
    ELSE IF depositor = Zero THEN "InvalidAddress"
    ELSE "ok"

deposit_err(sender, value, bountyId, depositor) ==
    IF sender # em_bountyRegistry THEN "Unauthorized"
    ELSE IF value = 0 THEN "InvalidAmount"
    ELSE IF depositor = Zero THEN "InvalidAddress"
    ELSE IF escrowOf(bountyId).status # "NONE" THEN "EscrowAlreadyExists"
    ELSE "ok"

\* Faulty variant: deposit that records its caller as the depositor.
deposit_escrow_callerAsDepositor(value, depositor) ==
    [depositor |-> em_bountyRegistry, amount |-> value, status |-> "FUNDED"]

deposit_escrow(value, depositor) ==
    [depositor |-> depositor, amount |-> value, status |-> "FUNDED"]

increaseDeposit_err(sender, value, bountyId) ==
    IF sender # em_bountyRegistry THEN "Unauthorized"
    ELSE IF value = 0 THEN "InvalidAmount"
    ELSE IF escrowOf(bountyId).status # "FUNDED" THEN "InvalidEscrowStatus"
    ELSE "ok"

\* Faulty variant: increaseDeposit that does not add to the amount.
increaseDeposit_escrow_forgetAmount(escrow, value) == escrow

increaseDeposit_escrow(escrow, value) ==
    [escrow EXCEPT !.amount = @ + value]

\* Faulty variant: release that ignores a failed transfer.
release_err_ignoreTransfer(sender, bountyId, recipient) ==
    IF sender # em_dataRegistry THEN "Unauthorized"
    ELSE IF recipient = Zero THEN "InvalidAddress"
    ELSE IF escrowOf(bountyId).status # "FUNDED" THEN "InvalidEscrowStatus"
    ELSE "ok"

release_err(sender, bountyId, recipient) ==
    IF nonReentrant_err(em_entered) # "ok" THEN nonReentrant_err(em_entered)
    ELSE IF sender # em_dataRegistry THEN "Unauthorized"
    ELSE IF recipient = Zero THEN "InvalidAddress"
    ELSE IF escrowOf(bountyId).status # "FUNDED" THEN "InvalidEscrowStatus"
    ELSE IF ~CallValueOk(EM, recipient, escrowOf(bountyId).amount)
         THEN "TransferFailed"
    ELSE "ok"

release_escrow(escrow) ==
    [escrow EXCEPT !.status = "RELEASED"]

refund_err(sender, bountyId) ==
    IF nonReentrant_err(em_entered) # "ok" THEN nonReentrant_err(em_entered)
    ELSE IF sender # em_bountyRegistry THEN "Unauthorized"
    ELSE IF escrowOf(bountyId).status # "FUNDED" THEN "InvalidEscrowStatus"
    ELSE IF ~CallValueOk(EM, escrowOf(bountyId).depositor,
                         escrowOf(bountyId).amount)
         THEN "TransferFailed"
    ELSE "ok"

refund_escrow(escrow) ==
    [escrow EXCEPT !.status = "REFUNDED"]

emergencyWithdraw_err(sender, bountyId, recipient) ==
    IF nonReentrant_err(em_entered) # "ok" THEN nonReentrant_err(em_entered)
    ELSE IF sender # Owner THEN "OwnableUnauthorizedAccount"
    ELSE IF recipient = Zero THEN "InvalidAddress"
    ELSE IF escrowOf(bountyId).status # "FUNDED" THEN "InvalidEscrowStatus"
    ELSE IF ~CallValueOk(EM, recipient, escrowOf(bountyId).amount)
         THEN "TransferFailed"
    ELSE "ok"

\* Faulty variant: the withdrawn escrow is left FUNDED.
emergencyWithdraw_escrow_staysFunded(escrow) == escrow

emergencyWithdraw_escrow(escrow) ==
    [escrow EXCEPT !.status = "REFUNDED"]

\* The external entry points, called directly by an account.

deposit(caller, value, bountyId, depositor) ==
    /\ balance[caller] >= value
    /\ LET err == deposit_err(caller, value, bountyId, depositor) IN
       /\ IF err = "ok"
          THEN /\ escrows' = [escrows EXCEPT
                                ![bountyId] = deposit_escrow(value, depositor)]
               /\ totalDeposits' = totalDeposits + value
               /\ balance' = Transfer(balance, caller, EM, value)
          ELSE UNCHANGED <<escrows, totalDeposits, balance>>
    /\ UNCHANGED <<now, em_bountyRegistry, em_dataRegistry, totalReleased,
                   totalRefunded, brVars, drVars>>
    /\ UNCHANGED fcVars
    /\ UNCHANGED vrVars
    /\ UNCHANGED rgVars

increaseDeposit(caller, value, bountyId) ==
    /\ balance[caller] >= value
    /\ LET err == increaseDeposit_err(caller, value, bountyId) IN
       /\ IF err = "ok"
          THEN /\ escrows' = [escrows EXCEPT ![bountyId] =
                                increaseDeposit_escrow(@, value)]
               /\ totalDeposits' = totalDeposits + value
               /\ balance' = Transfer(balance, caller, EM, value)
          ELSE UNCHANGED <<escrows, totalDeposits, balance>>
    /\ UNCHANGED <<now, em_bountyRegistry, em_dataRegistry, totalReleased,
                   totalRefunded, brVars, drVars>>
    /\ UNCHANGED fcVars
    /\ UNCHANGED vrVars
    /\ UNCHANGED rgVars

release(caller, bountyId, recipient) ==
    /\ LET err == release_err(caller, bountyId, recipient) IN
       /\ IF err = "ok"
          THEN /\ escrows' = [escrows EXCEPT ![bountyId] = release_escrow(@)]
               /\ totalReleased' = totalReleased + escrows[bountyId].amount
               /\ balance' = Transfer(balance, EM, recipient,
                                      escrows[bountyId].amount)
          ELSE UNCHANGED <<escrows, totalReleased, balance>>
    /\ UNCHANGED <<now, em_bountyRegistry, em_dataRegistry, totalDeposits,
                   totalRefunded, brVars, drVars>>
    /\ UNCHANGED fcVars
    /\ UNCHANGED vrVars
    /\ UNCHANGED rgVars

refund(caller, bountyId) ==
    /\ LET err == refund_err(caller, bountyId) IN
       /\ IF err = "ok"
          THEN /\ escrows' = [escrows EXCEPT ![bountyId] = refund_escrow(@)]
               /\ totalRefunded' = totalRefunded + escrows[bountyId].amount
               /\ balance' = Transfer(balance, EM, escrows[bountyId].depositor,
                                      escrows[bountyId].amount)
          ELSE UNCHANGED <<escrows, totalRefunded, balance>>
    /\ UNCHANGED <<now, em_bountyRegistry, em_dataRegistry, totalDeposits,
                   totalReleased, brVars, drVars>>
    /\ UNCHANGED fcVars
    /\ UNCHANGED vrVars
    /\ UNCHANGED rgVars

emergencyWithdraw(caller, bountyId, recipient) ==
    /\ LET err == emergencyWithdraw_err(caller, bountyId, recipient) IN
       /\ IF err = "ok"
          THEN /\ escrows' = [escrows EXCEPT
                                ![bountyId] = emergencyWithdraw_escrow(@)]
               /\ totalRefunded' = totalRefunded + escrows[bountyId].amount
               /\ balance' = Transfer(balance, EM, recipient,
                                      escrows[bountyId].amount)
          ELSE UNCHANGED <<escrows, totalRefunded, balance>>
    /\ UNCHANGED <<now, em_bountyRegistry, em_dataRegistry, totalDeposits,
                   totalReleased, brVars, drVars>>
    /\ UNCHANGED fcVars
    /\ UNCHANGED vrVars
    /\ UNCHANGED rgVars

EM_setBountyRegistry(caller, a) ==
    /\ LET err == IF caller # Owner THEN "OwnableUnauthorizedAccount"
                  ELSE IF a = Zero THEN "InvalidAddress" ELSE "ok" IN
       em_bountyRegistry' = IF err = "ok" THEN a ELSE em_bountyRegistry
    /\ UNCHANGED <<now, balance, em_dataRegistry, escrows, totalDeposits,
                   totalReleased, totalRefunded, brVars, drVars>>
    /\ UNCHANGED fcVars
    /\ UNCHANGED vrVars
    /\ UNCHANGED rgVars

EM_setDataRegistry(caller, a) ==
    /\ LET err == IF caller # Owner THEN "OwnableUnauthorizedAccount"
                  ELSE IF a = Zero THEN "InvalidAddress" ELSE "ok" IN
       /\ em_dataRegistry' = IF err = "ok" THEN a ELSE em_dataRegistry
    /\ UNCHANGED <<now, balance, em_bountyRegistry, escrows, totalDeposits,
                   totalReleased, totalRefunded, brVars, drVars>>
    /\ UNCHANGED fcVars
    /\ UNCHANGED vrVars
    /\ UNCHANGED rgVars

\* Faulty variant: receive() takes the value.
EM_receive_accepting(caller, value) ==
    /\ balance[caller] >= value
    /\ balance' = Transfer(balance, caller, EM, value)
    /\ UNCHANGED <<now, emVars, brVars, drVars>>
    /\ UNCHANGED fcVars
    /\ UNCHANGED vrVars
    /\ UNCHANGED rgVars

\* A plain value transfer to the EscrowManager: receive() always reverts.
EM_receive(caller, value) ==
    /\ balance[caller] >= value
    /\ UNCHANGED <<now, balance, emVars, brVars, drVars>>
    /\ UNCHANGED fcVars
    /\ UNCHANGED vrVars
    /\ UNCHANGED rgVars

getTotalBalance == balance[EM]

getStats ==
    [deposits |-> totalDeposits, released |-> totalReleased,
     refunded |-> totalRefunded, currentBalance |-> balance[EM]]

\* block.timestamp advances between transactions.
Tick ==
    /\ now < MaxTime
    /\ now' = now + 1
    /\ UNCHANGED <<balance, emVars, brVars, drVars>>
    /\ UNCHANGED fcVars
    /\ UNCHANGED vrVars
    /\ UNCHANGED rgVars


\* ----------------------------------------------------- BountyRegistry

\* Faulty variant: onlyDataRegistry that only looks whether a registry is bound.
onlyDataRegistry_err_anyCaller(sender) ==
    IF br_dataRegistry = Zero THEN "DataRegistryNotSet" ELSE "ok"

onlyDataRegistry_err(sender) ==
    IF br_dataRegistry = Zero THEN "DataRegistryNotSet"
    ELSE IF sender # br_dataRegistry THEN "Unauthorized"
    ELSE "ok"

\* Faulty variant: createBounty that accepts a deadline equal to the current
\* time.
createBounty_err_deadlineNow(sender, value, deadline, maxSubmissions) ==
    IF value < MIN_REWARD THEN "InsufficientReward"
    ELSE IF deadline < now THEN "InvalidDeadline"
    ELSE IF maxSubmissions = 0 THEN "InvalidStatus"
    ELSE IF br_escrowManager = Zero THEN "EscrowManagerNotSet"
    ELSE deposit_err(BR, value, bountyIdCounter, sender)

createBounty_err(sender, value, deadline, maxSubmissions) ==
    IF value < MIN_REWARD THEN "InsufficientReward"
    ELSE IF deadline <= now THEN "InvalidDeadline"
    ELSE IF maxSubmissions = 0 THEN "InvalidStatus"
    ELSE IF br_escrowManager = Zero THEN "EscrowManagerNotSet"
    ELSE deposit_err(BR, value, bountyIdCounter, sender)

\* Faulty variant: the new bounty does not record the attached value.
createBounty_bounty_noReward(sender, value, schemaUri, deadline, maxSubmissions) ==
    [creator |-> sender, schemaUri |-> schemaUri, reward |-> 0,
     deadline |-> deadline, status |-> "ACTIVE",
     maxSubmissions |-> maxSubmissions, submissionCount |-> 0]

createBounty_bounty(sender, value, schemaUri, deadline, maxSubmissions) ==
    [creator |-> sender, schemaUri |-> schemaUri, reward |-> value,
     deadline |-> deadline, status |-> "ACTIVE",
     maxSubmissions |-> maxSubmissions, submissionCount |-> 0]

\* Faulty variant: cancelBounty that does not look at the status.
cancelBounty_err_noStatusCheck(sender, bountyId) ==
    IF bountyOf(bountyId).creator = Zero THEN "BountyNotFound"
    ELSE IF sender # bountyOf(bountyId).creator THEN "Unauthorized"
    ELSE refund_err(BR, bountyId)

cancelBounty_err(sender, bountyId) ==
    IF nonReentrant_err(br_entered) # "ok" THEN nonReentrant_err(br_entered)
    ELSE IF bountyOf(bountyId).creator = Zero THEN "BountyNotFound"
    ELSE IF sender # bountyOf(bountyId).creator THEN "Unauthorized"
    ELSE IF bountyOf(bountyId).status # "ACTIVE" THEN "InvalidStatus"
    ELSE refund_err(BR, bountyId)

\* Faulty variant: completeBounty that does not look at the status.
completeBounty_err_noStatusCheck(sender, bountyId) ==
    IF onlyDataRegistry_err(sender) # "ok" THEN onlyDataRegistry_err(sender)
    ELSE IF bountyOf(bountyId).creator = Zero THEN "BountyNotFound"
    ELSE "ok"

completeBounty_err(sender, bountyId) ==
    IF onlyDataRegistry_err(sender) # "ok" THEN onlyDataRegistry_err(sender)
    ELSE IF bountyOf(bountyId).creator = Zero THEN "BountyNotFound"
    ELSE IF bountyOf(bountyId).status # "ACTIVE" THEN "InvalidStatus"
    ELSE "ok"

\* Faulty variant: increaseReward open to every caller.
increaseReward_err_anyCaller(sender, value, bountyId) ==
    IF bountyOf(bountyId).creator = Zero THEN "BountyNotFound"
    ELSE IF bountyOf(bountyId).status # "ACTIVE" THEN "InvalidStatus"
    ELSE IF value = 0 THEN "InsufficientReward"
    ELSE increaseDeposit_err(BR, value, bountyId)

increaseReward_err(sender, value, bountyId) ==
    IF nonReentrant_err(br_entered) # "ok" THEN nonReentrant_err(br_entered)
    ELSE IF bountyOf(bountyId).creator = Zero THEN "BountyNotFound"
    ELSE IF sender # bountyOf(bountyId).creator THEN "Unauthorized"
    ELSE IF bountyOf(bountyId).status # "ACTIVE" THEN "InvalidStatus"
    ELSE IF value = 0 THEN "InsufficientReward"
    ELSE increaseDeposit_err(BR, value, bountyId)

\* Faulty variant: extendDeadline that compares the new deadline with the
\* current time only.
extendDeadline_err_anyLater(sender, bountyId, newDeadline) ==
    IF bountyOf(bountyId).creator = Zero THEN "BountyNotFound"
    ELSE IF sender # bountyOf(bountyId).creator THEN "Unauthorized"
    ELSE IF bountyOf(bountyId).status # "ACTIVE" THEN "InvalidStatus"
    ELSE IF newDeadline <= now THEN "InvalidDeadline"
    ELSE "ok"

extendDeadline_err(sender, bountyId, newDeadline) ==
    IF nonReentrant_err(br_entered) # "ok" THEN nonReentrant_err(br_entered)
    ELSE IF bountyOf(bountyId).creator = Zero THEN "BountyNotFound"
    ELSE IF sender # bountyOf(bountyId).creator THEN "Unauthorized"
    ELSE IF bountyOf(bountyId).status # "ACTIVE" THEN "InvalidStatus"
    ELSE IF newDeadline <= bountyOf(bountyId).deadline THEN "InvalidDeadline"
    ELSE IF newDeadline <= now THEN "InvalidDeadline"
    ELSE "ok"

\* Faulty variant: expireBounty that is due already at the deadline.
expireBounty_err_atDeadline(sender, bountyId) ==
    IF bountyOf(bountyId).creator = Zero THEN "BountyNotFound"
    ELSE IF bountyOf(bountyId).status # "ACTIVE" THEN "InvalidStatus"
    ELSE IF now < bountyOf(bountyId).deadline THEN "InvalidDeadline"
    ELSE refund_err(BR, bountyId)

expireBounty_err(sender, bountyId) ==
    IF nonReentrant_err(br_entered) # "ok" THEN nonReentrant_err(br_entered)
    ELSE IF bountyOf(bountyId).creator = Zero THEN "BountyNotFound"
    ELSE IF bountyOf(bountyId).status # "ACTIVE" THEN "InvalidStatus"
    ELSE IF now <= bountyOf(bountyId).deadline THEN "InvalidDeadline"
    ELSE refund_err(BR, bountyId)

\* Faulty variant: incrementSubmissions comparing with > instead of >=.
incrementSubmissions_err_offByOne(sender, bountyId) ==
    IF onlyDataRegistry_err(sender) # "ok" THEN onlyDataRegistry_err(sender)
    ELSE IF bountyOf(bountyId).creator = Zero THEN "BountyNotFound"
    ELSE IF bountyOf(bountyId).submissionCount
              > bountyOf(bountyId).maxSubmissions
         THEN "MaxSubmissionsReached"
    ELSE "ok"

incrementSubmissions_err(sender, bountyId) ==
    IF onlyDataRegistry_err(sender) # "ok" THEN onlyDataRegistry_err(sender)
    ELSE IF bountyOf(bountyId).creator = Zero THEN "BountyNotFound"
    ELSE IF bountyOf(bountyId).submissionCount
              >= bountyOf(bountyId).maxSubmissions
         THEN "MaxSubmissionsReached"
    ELSE "ok"

\* Faulty variant: isBountyActive that does not look at the status.
isBountyActive_ignoreStatus(bountyId) ==
    /\ now <= bountyOf(bountyId).deadline
    /\ bountyOf(bountyId).submissionCount < bountyOf(bountyId).maxSubmissions

\* Faulty variant: isBountyActive that does not look at the cap.
isBountyActive_ignoreCap(bountyId) ==
    /\ bountyOf(bountyId).status = "ACTIVE"
    /\ now <= bountyOf(bountyId).deadline

isBountyActive(bountyId) ==
    /\ bountyOf(bountyId).status = "ACTIVE"
    /\ now <= bountyOf(bountyId).deadline
    /\ bountyOf(bountyId).submissionCount < bountyOf(bountyId).maxSubmissions

\* The status a bounty is given by each transition.
cancelBounty_status == "CANCELLED"
\* Faulty variant: a completed bounty is left ACTIVE.
completeBounty_status_staysActive == "ACTIVE"
completeBounty_status == "COMPLETED"
expireBounty_status == "EXPIRED"

\* Faulty variant: the count is left as it is.
incrementSubmissions_count_same(count) == count

incrementSubmissions_count(count) == count + 1

createBounty(caller, value, schemaUri, deadline, maxSubmissions) ==
    /\ balance[caller] >= value
    /\ LET err == createBounty_err(caller, value, deadline, maxSubmissions)
           bountyId == bountyIdCounter IN
       /\ err = "ok" => bountyIdCounter < MaxBounties
       /\ IF err = "ok"
          THEN /\ bountyIdCounter' = bountyIdCounter + 1
               /\ bounties' = [bounties EXCEPT ![bountyId] =
                     createBounty_bounty(caller, value, schemaUri, deadline,
                                         maxSubmissions)]
               /\ escrows' = [escrows EXCEPT
                                ![bountyId] = deposit_escrow(value, caller)]
               /\ totalDeposits' = totalDeposits + value
               /\ balance' = Transfer(balance, caller, EM, value)
          ELSE UNCHANGED <<bountyIdCounter, bounties, escrows, totalDeposits,
                           balance>>
    /\ UNCHANGED <<now, em_bountyRegistry, em_dataRegistry, totalReleased,
                   totalRefunded, br_escrowManager, br_dataRegistry, drVars>>
    /\ UNCHANGED fcVars
    /\ UNCHANGED vrVars
    /\ UNCHANGED rgVars

cancelBounty(caller, bountyId) ==
    /\ LET err == cancelBounty_err(caller, bountyId) IN
       /\ IF err = "ok"
          THEN /\ bounties' = [bounties EXCEPT
                                 ![bountyId].status = cancelBounty_status]
               /\ escrows' = [escrows EXCEPT ![bountyId] = refund_escrow(@)]
               /\ totalRefunded' = totalRefunded + escrows[bountyId].amount
               /\ balance' = Transfer(balance, EM, escrows[bountyId].depositor,
                                      escrows[bountyId].amount)
          ELSE UNCHANGED <<bounties, escrows, totalRefunded, balance>>
    /\ UNCHANGED <<now, em_bountyRegistry, em_dataRegistry, totalDeposits,
                   totalReleased, br_escrowManager, br_dataRegistry,
                   bountyIdCounter, drVars>>
    /\ UNCHANGED fcVars
    /\ UNCHANGED vrVars
    /\ UNCHANGED rgVars

completeBounty(caller, bountyId) ==
    /\ LET err == completeBounty_err(caller, bountyId) IN
       /\ IF err = "ok"
          THEN bounties' = [bounties EXCEPT
                              ![bountyId].status = completeBounty_status]
          ELSE UNCHANGED bounties
    /\ UNCHANGED <<now, balance, emVars, br_escrowManager, br_dataRegistry,
                   bountyIdCounter, drVars>>
    /\ UNCHANGED fcVars
    /\ UNCHANGED vrVars
    /\ UNCHANGED rgVars

increaseReward(caller, value, bountyId) ==
    /\ balance[caller] >= value
    /\ LET err == increaseReward_err(caller, value, bountyId) IN
       /\ IF err = "ok"
          THEN /\ bounties' = [bounties EXCEPT ![bountyId].reward = @ + value]
               /\ escrows' = [escrows EXCEPT ![bountyId] =
                                increaseDeposit_escrow(@, value)]
               /\ totalDeposits' = totalDeposits + value
               /\ balance' = Transfer(balance, caller, EM, value)
          ELSE UNCHANGED <<bounties, escrows, totalDeposits, balance>>
    /\ UNCHANGED <<now, em_bountyRegistry, em_dataRegistry, totalReleased,
                   totalRefunded, br_escrowManager, br_dataRegistry,
                   bountyIdCounter, drVars>>
    /\ UNCHANGED fcVars
    /\ UNCHANGED vrVars
    /\ UNCHANGED rgVars

extendDeadline(caller, bountyId, newDeadline) ==
    /\ LET err == extendDeadline_err(caller, bountyId, newDeadline) IN
       /\ IF err = "ok"
          THEN bounties' = [bounties EXCEPT ![bountyId].deadline = newDeadline]
          ELSE UNCHANGED bounties
    /\ UNCHANGED <<now, balance, emVars, br_escrowManager, br_dataRegistry,
                   bountyIdCounter, drVars>>
    /\ UNCHANGED fcVars
    /\ UNCHANGED vrVars
    /\ UNCHANGED rgVars

expireBounty(caller, bountyId) ==
    /\ LET err == expireBounty_err(caller, bountyId) IN
       /\ IF err = "ok"
          THEN /\ bounties' = [bounties EXCEPT
                                 ![bountyId].status = expireBounty_status]
               /\ escrows' = [escrows EXCEPT ![bountyId] = refund_escrow(@)]
               /\ totalRefunded' = totalRefunded + escrows[bountyId].amount
               /\ balance' = Transfer(balance, EM, escrows[bountyId].depositor,
                                      escrows[bountyId].amount)
          ELSE UNCHANGED <<bounties, escrows, totalRefunded, balance>>
    /\ UNCHANGED <<now, em_bountyRegistry, em_dataRegistry, totalDeposits,
                   totalReleased, br_escrowManager, br_dataRegistry,
                   bountyIdCounter, drVars>>
    /\ UNCHANGED fcVars
    /\ UNCHANGED vrVars
    /\ UNCHANGED rgVars

incrementSubmissions(caller, bountyId) ==
    /\ LET err == incrementSubmissions_err(caller, bountyId) IN
       /\ IF err = "ok"
          THEN bounties' = [bounties EXCEPT ![bountyId].submissionCount =
                              incrementSubmissions_count(@)]
          ELSE UNCHANGED bounties
    /\ UNCHANGED <<now, balance, emVars, br_escrowManager, br_dataRegistry,
                   bountyIdCounter, drVars>>
    /\ UNCHANGED fcVars
    /\ UNCHANGED vrVars
    /\ UNCHANGED rgVars

BR_setDataRegistry(caller, a) ==
    /\ LET err == IF caller # Owner THEN "OwnableUnauthorizedAccount"
                  ELSE IF a = Zero THEN "InvalidAddress" ELSE "ok" IN
       /\ br_dataRegistry' = IF err = "ok" THEN a ELSE br_dataRegistry
    /\ UNCHANGED <<now, balance, emVars, br_escrowManager, bounties,
                   bountyIdCounter, drVars>>
    /\ UNCHANGED fcVars
    /\ UNCHANGED vrVars
    /\ UNCHANGED rgVars

BR_setEscrowManager(caller, a) ==
    /\ LET err == IF caller # Owner THEN "OwnableUnauthorizedAccount"
                  ELSE IF a = Zero THEN "BountyNotFound" ELSE "ok" IN
       /\ br_escrowManager' = IF err = "ok" THEN a ELSE br_escrowManager
    /\ UNCHANGED <<now, balance, emVars, br_dataRegistry, bounties,
                   bountyIdCounter, drVars>>
    /\ UNCHANGED fcVars
    /\ UNCHANGED vrVars
    /\ UNCHANGED rgVars

\* ------------------------------------------------------- DataRegistry
\* DataRegistry.bountyRegistry is fixed by the constructor.
dr_bountyRegistry == BR

\* Faulty variant: submitData that accepts an empty cid.
submitData_err_acceptEmptyCid(sender, bountyId, cid) ==
    IF ~isBountyActive(bountyId) THEN "BountyNotActive"
    ELSE IF incrementSubmissions_err(DR, bountyId) # "ok"
         THEN incrementSubmissions_err(DR, bountyId)
    ELSE IF dr_functionsConsumer = Zero THEN "FunctionsConsumerNotSet"
    ELSE "ok"

submitData_err(sender, bountyId, cid) ==
    IF ~isBountyActive(bountyId) THEN "BountyNotActive"
    ELSE IF cid = "" THEN "InvalidCID"
    ELSE IF incrementSubmissions_err(DR, bountyId) # "ok"
         THEN incrementSubmissions_err(DR, bountyId)
    ELSE IF dr_functionsConsumer = Zero THEN "FunctionsConsumerNotSet"
    ELSE "ok"

\* The record submitData leaves: stored PENDING, then set VERIFYING by
\* _requestVerification before the call returns.
submitData_submission(sender, bountyId, cid) ==
    [bountyId |-> bountyId, contributor |-> sender, cid |-> cid,
     status |-> "VERIFYING"]

\* _releasePayment: the contributor is paid out of the DataRegistry's own
\* balance by a plain value transfer.
releasePayment_err(submissionId, amount) ==
    IF ~CallValueOk(DR, submissionOf(submissionId).contributor, amount)
    THEN "PaymentFailed"
    ELSE "ok"

\* Faulty variant: handleVerificationResult that goes on after a failed
\* completeBounty.
handleVerificationResult_err_swallowCompletion(sender, submissionId, verified) ==
    IF sender # dr_functionsConsumer THEN "Unauthorized"
    ELSE IF submissionOf(submissionId).contributor = Zero
         THEN "SubmissionNotFound"
    ELSE IF submissionOf(submissionId).status # "VERIFYING"
         THEN "InvalidStatus"
    ELSE IF ~verified THEN "ok"
    ELSE releasePayment_err(submissionId,
             bountyOf(submissionOf(submissionId).bountyId).reward)

\* Faulty variant: handleVerificationResult that does not look at the status.
handleVerificationResult_err_noStatusCheck(sender, submissionId, verified) ==
    IF sender # dr_functionsConsumer THEN "Unauthorized"
    ELSE IF submissionOf(submissionId).contributor = Zero
         THEN "SubmissionNotFound"
    ELSE IF ~verified THEN "ok"
    ELSE IF completeBounty_err(DR, submissionOf(submissionId).bountyId) # "ok"
         THEN completeBounty_err(DR, submissionOf(submissionId).bountyId)
    ELSE releasePayment_err(submissionId,
             bountyOf(submissionOf(submissionId).bountyId).reward)

\* Faulty variant: handleVerificationResult that accepts a REJECTED submission again.
handleVerificationResult_err_retryRejected(sender, submissionId, verified) ==
    IF sender # dr_functionsConsumer THEN "Unauthorized"
    ELSE IF submissionOf(submissionId).contributor = Zero
         THEN "SubmissionNotFound"
    ELSE IF submissionOf(submissionId).status \notin {"VERIFYING", "REJECTED"}
         THEN "InvalidStatus"
    ELSE IF ~verified THEN "ok"
    ELSE IF completeBounty_err(DR, submissionOf(submissionId).bountyId) # "ok"
         THEN completeBounty_err(DR, submissionOf(submissionId).bountyId)
    ELSE releasePayment_err(submissionId,
             bountyOf(submissionOf(submissionId).bountyId).reward)

handleVerificationResult_err(sender, submissionId, verified) ==
    IF sender # dr_functionsConsumer THEN "Unauthorized"
    ELSE IF submissionOf(submissionId).contributor = Zero
         THEN "SubmissionNotFound"
    ELSE IF submissionOf(submissionId).status # "VERIFYING"
         THEN "InvalidStatus"
    ELSE IF ~verified THEN "ok"
    ELSE IF completeBounty_err(DR, submissionOf(submissionId).bountyId) # "ok"
         THEN completeBounty_err(DR, submissionOf(submissionId).bountyId)
    ELSE releasePayment_err(submissionId,
             bountyOf(submissionOf(submissionId).bountyId).reward)

\* Faulty variant: handleVerificationResult that ignores the verdict.
handleVerificationResult_status_alwaysVerified(verified) == "VERIFIED"

handleVerificationResult_status(verified) ==
    IF verified THEN "VERIFIED" ELSE "REJECTED"

submitData(caller, bountyId, cid) ==
    /\ LET err == submitData_err(caller, bountyId, cid)
           submissionId == submissionIdCounter IN
       /\ err = "ok" => submissionIdCounter < MaxSubmissions
       /\ IF err = "ok"
          THEN /\ submissionIdCounter' = submissionIdCounter + 1
               /\ submissions' = [submissions EXCEPT ![submissionId] =
                     submitData_submission(caller, bountyId, cid)]
               /\ bountySubmissions' = [bountySubmissions EXCEPT
                     ![bountyId] = Append(@, submissionId)]
               /\ bounties' = [bounties EXCEPT ![bountyId].submissionCount =
                                 incrementSubmissions_count(@)]
          ELSE UNCHANGED <<submissionIdCounter, submissions,
                           bountySubmissions, bounties>>
    /\ UNCHANGED <<now, balance, emVars, br_escrowManager, br_dataRegistry,
                   bountyIdCounter, dr_functionsConsumer, paymentReleased>>
    /\ UNCHANGED fcVars
    /\ UNCHANGED vrVars
    /\ UNCHANGED rgVars

handleVerificationResult_call(caller, submissionId, verified) ==
    /\ LET err == handleVerificationResult_err(caller, submissionId, verified)
           submission == submissionOf(submissionId)
           bounty == bountyOf(submission.bountyId) IN
       /\ IF err = "ok"
          THEN /\ submissions' = [submissions EXCEPT
                     ![submissionId].status =
                         handleVerificationResult_status(verified)]
               /\ IF verified
                  THEN /\ bounties' = [bounties EXCEPT
                             ![submission.bountyId].status =
                                 completeBounty_status]
                       /\ balance' = Transfer(balance, DR,
                                              submission.contributor,
                                              bounty.reward)
                       /\ paymentReleased' = [paymentReleased EXCEPT
                                                ![submissionId] = @ + 1]
                  ELSE UNCHANGED <<bounties, balance, paymentReleased>>
          ELSE UNCHANGED <<submissions, bounties, balance, paymentReleased>>
    /\ UNCHANGED <<now, emVars, br_escrowManager, br_dataRegistry,
                   bountyIdCounter, dr_functionsConsumer, submissionIdCounter,
                   bountySubmissions>>

\* handleVerificationResult called directly by an account.
handleVerificationResult(caller, submissionId, verified) ==
    /\ handleVerificationResult_call(caller, submissionId, verified)
    /\ UNCHANGED fcVars
    /\ UNCHANGED vrVars
    /\ UNCHANGED rgVars

setFunctionsConsumer(caller, a) ==
    /\ LET err == IF caller # Owner THEN "OwnableUnauthorizedAccount"
                  ELSE "ok" IN
       /\ dr_functionsConsumer' = IF err = "ok" THEN a
                                  ELSE dr_functionsConsumer
    /\ UNCHANGED <<now, balance, emVars, brVars, submissions,
                   submissionIdCounter, bountySubmissions, paymentReleased>>
    /\ UNCHANGED fcVars
    /\ UNCHANGED vrVars
    /\ UNCHANGED rgVars

\* A plain value transfer to the DataRegistry: receive() accepts it.
DR_receive(caller, value) ==
    /\ value > 0
    /\ balance[caller] >= value
    /\ balance' = Transfer(balance, caller, DR, value)
    /\ UNCHANGED <<now, emVars, brVars, drVars>>
    /\ UNCHANGED fcVars
    /\ UNCHANGED vrVars
    /\ UNCHANGED rgVars

\* -------------------------------------------------- FunctionsConsumer
\* The id the router gives the next request: ids are handed out in order.
NextRequestId ==
    1 + Cardinality({r \in RequestIds : requestArgs[r] # NoRequest})

requestVerification_err(cid, schemaUri) ==
    IF cid = "" \/ schemaUri = "" THEN "InvalidArguments" ELSE "ok"

requestVerification(caller, submissionId, cid, schemaUri) ==
    /\ LET err == requestVerification_err(cid, schemaUri)
           requestId == NextRequestId IN
       /\ err = "ok" => requestId <= MaxRequests
       /\ IF err = "ok"
          THEN /\ requestArgs' = [requestArgs EXCEPT ![requestId] =
                     [cid |-> cid, schemaUri |-> schemaUri]]
               /\ requestIdToSubmission' = [requestIdToSubmission EXCEPT
                     ![requestId] = submissionId]
          ELSE UNCHANGED fcVars
    /\ UNCHANGED <<now, balance, emVars, brVars, drVars>>
    /\ UNCHANGED vrVars
    /\ UNCHANGED rgVars

\* A response is a sequence of bytes.  The routine's answer is one uint256
\* word: 32 bytes, big-endian.
encodeUint256(v) == [i \in 1 .. 32 |-> IF i = 32 THEN v ELSE 0]

\* abi.decode(response, (uint256)) needs a whole word and reverts on less;
\* bytes after the first word are ignored.
abi_decode_reverts(response) == Len(response) < 32

abi_decode_isOne(response) ==
    /\ \A i \in 1 .. 31 : response[i] = 0
    /\ response[32] = 1

\* The verdict fulfillRequest reads from the DON's answer; the response is
\* decoded only when it is nonempty and err is empty.
fulfillRequest_verified(response, err) ==
    /\ Len(response) > 0
    /\ err = ""
    /\ abi_decode_isOne(response)

\* Faulty variant: the entry is not checked, so a delivery under an id with
\* no entry is passed on for submission 0.
fulfillRequest_err_noEntryCheck(requestId, response, err) ==
    IF Len(response) > 0 /\ err = "" /\ abi_decode_reverts(response)
    THEN "DecodeReverted"
    ELSE handleVerificationResult_err(FC, requestIdToSubmission[requestId],
                                      fulfillRequest_verified(response, err))

fulfillRequest_err(requestId, response, err) ==
    IF requestIdToSubmission[requestId] = 0 THEN "UnexpectedRequestID"
    ELSE IF Len(response) > 0 /\ err = "" /\ abi_decode_reverts(response)
    THEN "DecodeReverted"
    ELSE handleVerificationResult_err(FC, requestIdToSubmission[requestId],
                                      fulfillRequest_verified(response, err))

\* The router delivers an answer under a request id; an id that was never
\* handed out, or whose entry is gone, is among the inputs.
fulfillRequest(requestId, response, err) ==
    /\ IF fulfillRequest_err(requestId, response, err) = "ok"
       THEN /\ handleVerificationResult_call(FC,
                   requestIdToSubmission[requestId],
                   fulfillRequest_verified(response, err))
            /\ requestIdToSubmission' = [requestIdToSubmission EXCEPT
                  ![requestId] = 0]
            /\ UNCHANGED requestArgs
            /\ UNCHANGED vrVars
            /\ UNCHANGED rgVars
       ELSE UNCHANGED vars

\* ------------------------------------- transfers to a recipient with code
\* recipient.call{value: amount}("") hands control to the recipient.  The
\* calls below are release, emergencyWithdraw, refund, cancelBounty and
\* expireBounty up to that point: the checks have passed, the storage
\* writes that precede the call are made, the value is with the recipient
\* and the guards entered on the way are still entered.  While the transfer
\* is in progress the recipient may call into the contracts; when it returns
\* the transaction ends and the guards are left.
transferring(to, bountyId, amount, viaRegistry) ==
    /\ em_entered' = TRUE
    /\ br_entered' = viaRegistry
    /\ em_transfer' = [to |-> to, bountyId |-> bountyId, amount |-> amount]

release_call(caller, bountyId, recipient) ==
    /\ em_transfer = NoTransfer
    /\ release_err(caller, bountyId, recipient) = "ok"
    /\ escrows' = [escrows EXCEPT ![bountyId] = release_escrow(@)]
    /\ totalReleased' = totalReleased + escrows[bountyId].amount
    /\ balance' = Transfer(balance, EM, recipient, escrows[bountyId].amount)
    /\ transferring(recipient, bountyId, escrows[bountyId].amount, FALSE)
    /\ UNCHANGED <<now, em_bountyRegistry, em_dataRegistry, totalDeposits,
                   totalRefunded, brVars, drVars, fcVars, vrVars>>

refund_call(caller, bountyId) ==
    /\ em_transfer = NoTransfer
    /\ refund_err(caller, bountyId) = "ok"
    /\ escrows' = [escrows EXCEPT ![bountyId] = refund_escrow(@)]
    /\ totalRefunded' = totalRefunded + escrows[bountyId].amount
    /\ balance' = Transfer(balance, EM, escrows[bountyId].depositor,
                           escrows[bountyId].amount)
    /\ transferring(escrows[bountyId].depositor, bountyId,
                    escrows[bountyId].amount, FALSE)
    /\ UNCHANGED <<now, em_bountyRegistry, em_dataRegistry, totalDeposits,
                   totalReleased, brVars, drVars, fcVars, vrVars>>

emergencyWithdraw_call(caller, bountyId, recipient) ==
    /\ em_transfer = NoTransfer
    /\ emergencyWithdraw_err(caller, bountyId, recipient) = "ok"
    /\ escrows' = [escrows EXCEPT ![bountyId] = emergencyWithdraw_escrow(@)]
    /\ totalRefunded' = totalRefunded + escrows[bountyId].amount
    /\ balance' = Transfer(balance, EM, recipient, escrows[bountyId].amount)
    /\ transferring(recipient, bountyId, escrows[bountyId].amount, FALSE)
    /\ UNCHANGED <<now, em_bountyRegistry, em_dataRegistry, totalDeposits,
                   totalReleased, brVars, drVars, fcVars, vrVars>>

cancelBounty_call(caller, bountyId) ==
    /\ em_transfer = NoTransfer
    /\ cancelBounty_err(caller, bountyId) = "ok"
    /\ bounties' = [bounties EXCEPT ![bountyId].status = cancelBounty_status]
    /\ escrows' = [escrows EXCEPT ![bountyId] = refund_escrow(@)]
    /\ totalRefunded' = totalRefunded + escrows[bountyId].amount
    /\ balance' = Transfer(balance, EM, escrows[bountyId].depositor,
                           escrows[bountyId].amount)
    /\ transferring(escrows[bountyId].depositor, bountyId,
                    escrows[bountyId].amount, TRUE)
    /\ UNCHANGED <<now, em_bountyRegistry, em_dataRegistry, totalDeposits,
                   totalReleased, br_escrowManager, br_dataRegistry,
                   bountyIdCounter, drVars, fcVars, vrVars>>

expireBounty_call(caller, bountyId) ==
    /\ em_transfer = NoTransfer
    /\ expireBounty_err(caller, bountyId) = "ok"
    /\ bounties' = [bounties EXCEPT ![bountyId].status = expireBounty_status]
    /\ escrows' = [escrows EXCEPT ![bountyId] = refund_escrow(@)]
    /\ totalRefunded' = totalRefunded + escrows[bountyId].amount
    /\ balance' = Transfer(balance, EM, escrows[bountyId].depositor,
                           escrows[bountyId].amount)
    /\ transferring(escrows[bountyId].depositor, bountyId,
                    escrows[bountyId].amount, TRUE)
    /\ UNCHANGED <<now, em_bountyRegistry, em_dataRegistry, totalDeposits,
                   totalReleased, br_escrowManager, br_dataRegistry,
                   bountyIdCounter, drVars, fcVars, vrVars>>

\* The recipient's code returns without reverting: the transfer succeeded,
\* the call that made it runs to its end and the guards are left.
transfer_return ==
    /\ em_transfer # NoTransfer
    /\ em_entered' = FALSE
    /\ br_entered' = FALSE
    /\ em_transfer' = NoTransfer
    /\ UNCHANGED <<now, balance, emVars, brVars, drVars, fcVars, vrVars>>

\* --------------------------------------------------------------- events
\* The events a successful call appends to the log, by name and in order,
\* those of the calls it makes included; a reverted call appends none.
deposit_events == <<"FundsDeposited">>
increaseDeposit_events == <<"FundsDeposited">>
release_events == <<"FundsReleased">>
refund_events == <<"FundsRefunded">>
emergencyWithdraw_events == <<"FundsRefunded">>
EM_setBountyRegistry_events == <<"BountyRegistryUpdated">>
EM_setDataRegistry_events == <<"DataRegistryUpdated">>

BR_setDataRegistry_events == <<"DataRegistryUpdated">>
BR_setEscrowManager_events == <<"EscrowManagerUpdated">>
createBounty_events == deposit_events \o <<"BountyCreated">>
cancelBounty_events == refund_events \o <<"BountyCancelled">>
completeBounty_events == <<"BountyCompleted">>
increaseReward_events == increaseDeposit_events \o <<"RewardIncreased">>
extendDeadline_events == <<"DeadlineExtended">>
expireBounty_events == refund_events \o <<"BountyExpired">>
incrementSubmissions_events == <<"SubmissionIncremented">>

submitData_events ==
    incrementSubmissions_events \o <<"DataSubmitted", "VerificationRequested">>

handleVerificationResult_events(verified) ==
    IF verified
    THEN completeBounty_events \o <<"PaymentReleased", "SubmissionVerified">>
    ELSE <<"SubmissionVerified">>

setFunctionsConsumer_events == <<>>

requestVerification_events == <<"VerificationRequested">>

fulfillRequest_events(response, err) ==
    <<"VerificationFulfilled">>
        \o handleVerificationResult_events(
               fulfillRequest_verified(response, err))

\* The owner-only settings of the FunctionsConsumer.
onlyOwner_err(sender) ==
    IF sender # Owner THEN "OwnableUnauthorizedAccount" ELSE "ok"

updateVerificationSource_err(sender) == onlyOwner_err(sender)
updateVerificationSource_events == <<"VerificationSourceUpdated">>
updateConfig_err(sender) == onlyOwner_err(sender)
updateConfig_events == <<"ConfigUpdated">>
updateDataRegistry_err(sender) == onlyOwner_err(sender)
updateDataRegistry_events == <<>>

\* ------------------------------------------------- Verification Routine
\* JSON documents as the routine sees them after the HTTP client parsed the
\* body.  Numbers are kept as twice their value, so that halves exist and
\* Number.isInteger can tell them apart; strings are sequences of
\* characters; an object is the sequence of its <<key, value>> pairs in
\* document order, the order JSON.stringify and Object.keys follow.
Undefined == [t |-> "undefined"]
JsonNull == [t |-> "null"]
Bool(b) == [t |-> "boolean", bool |-> b]
Num(n) == [t |-> "number", twice |-> 2 * n]
Half(n) == [t |-> "number", twice |-> 2 * n + 1]
Str(chars) == [t |-> "string", chars |-> chars]
Arr(items) == [t |-> "array", items |-> items]
Obj(pairs) == [t |-> "object", pairs |-> pairs]

RECURSIVE Join(_)
Join(chars) == IF chars = <<>> THEN "" ELSE Head(chars) \o Join(Tail(chars))

\* typeof value
typeof(value) ==
    IF value.t \in {"null", "array", "object"} THEN "object" ELSE value.t

getType(value) ==
    IF value.t = "null" THEN "null"
    ELSE IF value.t = "array" THEN "array"
    ELSE typeof(value)

\* key in obj, for a JSON object
hasKey(obj, key) ==
    /\ obj.t = "object"
    /\ \E i \in 1 .. Len(obj.pairs) : obj.pairs[i][1] = key

\* obj[key] and obj.key: undefined when the key is absent
getKey(obj, key) ==
    IF hasKey(obj, key)
    THEN obj.pairs[CHOOSE i \in 1 .. Len(obj.pairs) : obj.pairs[i][1] = key][2]
    ELSE Undefined

\* Object.keys(obj)
keys(obj) == [i \in 1 .. Len(obj.pairs) |-> obj.pairs[i][1]]

\* if (value): undefined, null, false, 0 and "" are falsy
truthy(value) ==
    CASE value.t \in {"undefined", "null"} -> FALSE
      [] value.t = "boolean" -> value.bool
      [] value.t = "number" -> value.twice # 0
      [] value.t = "string" -> value.chars # <<>>
      [] OTHER -> TRUE

\* JSON.stringify(value) as the sequence of its tokens
Token(kind, text, number) == [kind |-> kind, text |-> text, number |-> number]

RECURSIVE stringifyAll(_, _)
RECURSIVE JSON_stringify(_)
JSON_stringify(value) ==
    CASE value.t = "null" -> <<Token("null", "", 0)>>
      [] value.t = "boolean" ->
            <<Token(IF value.bool THEN "true" ELSE "false", "", 0)>>
      [] value.t = "number" -> <<Token("number", "", value.twice)>>
      [] value.t = "string" -> <<Token("string", Join(value.chars), 0)>>
      [] value.t = "array" ->
            <<Token("[", "", 0)>> \o stringifyAll(value.items, FALSE)
                \o <<Token("]", "", 0)>>
      [] value.t = "object" ->
            <<Token("{", "", 0)>> \o stringifyAll(value.pairs, TRUE)
                \o <<Token("}", "", 0)>>

stringifyAll(members, keyed) ==
    IF members = <<>> THEN <<>>
    ELSE (IF keyed
          THEN <<Token("key", Head(members)[1], 0)>>
                   \o JSON_stringify(Head(members)[2])
          ELSE JSON_stringify(Head(members)))
         \o <<Token(",", "", 0)>> \o stringifyAll(Tail(members), keyed)

\* new RegExp(pattern).test(text) for a pattern without metacharacters:
\* the pattern occurs somewhere in the text
RegExp_test(pattern, text) ==
    \E i \in 1 .. (Len(text) + 1) :
        /\ i + Len(pattern) - 1 <= Len(text)
        /\ SubSeq(text, i, i + Len(pattern) - 1) = pattern

\* The schemas fetched state their bounds as numbers; a bound that is not
\* a number constrains nothing here.
isNumber(value) == value.t = "number"

RECURSIVE validate(_, _)
validate(data, schema) ==
    IF typeof(schema) # "object" \/ schema.t = "null" THEN TRUE
    ELSE
    LET type == getKey(schema, "type")
        enum == getKey(schema, "enum")
        minimum == getKey(schema, "minimum")
        maximum == getKey(schema, "maximum")
        minLength == getKey(schema, "minLength")
        maxLength == getKey(schema, "maxLength")
        pattern == getKey(schema, "pattern")
        minItems == getKey(schema, "minItems")
        maxItems == getKey(schema, "maxItems")
        items == getKey(schema, "items")
        required == getKey(schema, "required")
        properties == getKey(schema, "properties")
        additionalProperties == getKey(schema, "additionalProperties")
    IN
    \* type
    /\ truthy(type) =>
          IF type.t = "string" /\ Join(type.chars) = "integer"
          THEN typeof(data) = "number" /\ data.twice % 2 = 0
          ELSE type.t = "string" /\ Join(type.chars) = getType(data)
    \* enum
    /\ enum.t = "array" =>
          \E i \in 1 .. Len(enum.items) :
              JSON_stringify(enum.items[i]) = JSON_stringify(data)
    \* const
    /\ hasKey(schema, "const") =>
          JSON_stringify(data) = JSON_stringify(getKey(schema, "const"))
    \* number constraints
    /\ typeof(data) = "number" =>
          /\ ~(isNumber(minimum)
                 /\ data.twice < minimum.twice)
          /\ ~(isNumber(maximum)
                 /\ data.twice > maximum.twice)
    \* string constraints
    /\ typeof(data) = "string" =>
          /\ ~(isNumber(minLength)
                 /\ 2 * Len(data.chars) < minLength.twice)
          /\ ~(isNumber(maxLength)
                 /\ 2 * Len(data.chars) > maxLength.twice)
          /\ (truthy(pattern) /\ pattern.t = "string") =>
                RegExp_test(pattern.chars, data.chars)
    \* array constraints
    /\ data.t = "array" =>
          /\ ~(isNumber(minItems)
                 /\ 2 * Len(data.items) < minItems.twice)
          /\ ~(isNumber(maxItems)
                 /\ 2 * Len(data.items) > maxItems.twice)
          /\ truthy(items) =>
                \A i \in 1 .. Len(data.items) : validate(data.items[i], items)
    \* object constraints
    /\ getType(data) = "object" =>
          /\ required.t = "array" =>
                \A i \in 1 .. Len(required.items) :
                    required.items[i].t = "string" =>
                        hasKey(data, Join(required.items[i].chars))
          /\ properties.t = "object" =>
                \A i \in 1 .. Len(keys(properties)) :
                    hasKey(data, keys(properties)[i]) =>
                        validate(getKey(data, keys(properties)[i]),
                                 getKey(properties, keys(properties)[i]))
          /\ (/\ additionalProperties.t = "boolean"
              /\ ~additionalProperties.bool
              /\ properties.t = "object") =>
                \A i \in 1 .. Len(keys(data)) :
                    hasKey(properties, keys(data)[i])

\* args[i - 1]; a missing argument and an empty one are both falsy, and the
\* routine only asks whether they are.
arg(i) == IF Len(vr_args) >= i THEN vr_args[i] ELSE ""

dataCid == arg(1)
schemaCid == arg(2)
gatewayOverride == arg(3)

\* HTTP requests one execution may make on the DON
MAX_HTTP_REQUESTS == 5

\* Faulty variant: a third default gateway.
GATEWAYS_three ==
    IF gatewayOverride # "" THEN <<gatewayOverride>>
    ELSE <<"https://w3s.link/ipfs/", "https://ipfs.io/ipfs/",
           "https://dweb.link/ipfs/">>

GATEWAYS ==
    IF gatewayOverride # "" THEN <<gatewayOverride>>
    ELSE <<"https://w3s.link/ipfs/", "https://ipfs.io/ipfs/">>

\* The routine is loaded with its arguments and has not run yet.
loaded(args) ==
    /\ vr_args = args
    /\ vr_pc = "start"
    /\ vr_gw = 1
    /\ vr_schema = Undefined
    /\ vr_data = Undefined
    /\ vr_requests = <<>>
    /\ vr_result = <<>>

\* return Functions.encodeUint256(v)
returns(v) ==
    /\ vr_result' = encodeUint256(v)
    /\ vr_pc' = "done"

\* One HTTP exchange: the url asked for and the answer, res.error and
\* res.data.
exchange(gw, cid, res) ==
    [gateway |-> gw, cid |-> cid, error |-> res.error, data |-> res.data]

\* Faulty variant: an answer without error does not end the loop unless it
\* came from the last gateway, so the last answer is the one kept.
fetchSchema_noStop(res) ==
    /\ vr_pc = "fetchSchema"
    /\ vr_requests' = Append(vr_requests,
                              exchange(GATEWAYS[vr_gw], schemaCid, res))
    /\ vr_schema' = IF res.error THEN vr_schema ELSE res.data
    /\ IF vr_gw < Len(GATEWAYS)
       THEN vr_gw' = vr_gw + 1 /\ UNCHANGED <<vr_pc, vr_result>>
       ELSE IF vr_schema' \in {Undefined, JsonNull}
            THEN returns(0) /\ UNCHANGED vr_gw
            ELSE vr_pc' = "fetchData" /\ vr_gw' = 1 /\ UNCHANGED vr_result
    /\ UNCHANGED <<vr_args, vr_data>>
    /\ UNCHANGED <<now, balance, emVars, brVars, drVars, fcVars, rgVars>>

\* Faulty variant: when every gateway failed for the schema the run goes on
\* to the data without a schema.
fetchSchema_failOpen(res) ==
    /\ vr_pc = "fetchSchema"
    /\ vr_requests' = Append(vr_requests,
                              exchange(GATEWAYS[vr_gw], schemaCid, res))
    /\ IF ~res.error
       THEN /\ vr_schema' = res.data
            /\ vr_pc' = "fetchData" /\ vr_gw' = 1 /\ UNCHANGED vr_result
       ELSE /\ UNCHANGED vr_schema
            /\ IF vr_gw < Len(GATEWAYS)
               THEN vr_gw' = vr_gw + 1 /\ UNCHANGED <<vr_pc, vr_result>>
               ELSE vr_pc' = "fetchData" /\ vr_gw' = 1 /\ UNCHANGED vr_result
    /\ UNCHANGED <<vr_args, vr_data>>
    /\ UNCHANGED <<now, balance, emVars, brVars, drVars, fcVars, rgVars>>

\* The argument check that opens the routine.
checkArguments ==
    /\ vr_pc = "start"
    /\ IF dataCid = "" \/ schemaCid = ""
       THEN returns(0) /\ UNCHANGED vr_gw
       ELSE vr_pc' = "fetchSchema" /\ vr_gw' = 1 /\ UNCHANGED vr_result
    /\ UNCHANGED <<vr_args, vr_schema, vr_data, vr_requests>>
    /\ UNCHANGED <<now, balance, emVars, brVars, drVars, fcVars, rgVars>>

\* One turn of the loop of fetchFromIPFS(schemaCid): the request to the
\* gateway in turn and what follows from its answer res.
fetchSchema(res) ==
    /\ vr_pc = "fetchSchema"
    /\ vr_requests' = Append(vr_requests,
                              exchange(GATEWAYS[vr_gw], schemaCid, res))
    /\ IF ~res.error
       THEN /\ vr_schema' = res.data
            /\ IF res.data = JsonNull
               THEN returns(0) /\ UNCHANGED vr_gw
               ELSE vr_pc' = "fetchData" /\ vr_gw' = 1 /\ UNCHANGED vr_result
       ELSE /\ UNCHANGED vr_schema
            /\ IF vr_gw < Len(GATEWAYS)
               THEN vr_gw' = vr_gw + 1 /\ UNCHANGED <<vr_pc, vr_result>>
               ELSE returns(0) /\ UNCHANGED vr_gw
    /\ UNCHANGED <<vr_args, vr_data>>
    /\ UNCHANGED <<now, balance, emVars, brVars, drVars, fcVars, rgVars>>

\* One turn of the loop of fetchFromIPFS(dataCid); the answer that ends the
\* loop is validated and the verdict returned.
fetchData(res) ==
    /\ vr_pc = "fetchData"
    /\ vr_requests' = Append(vr_requests,
                              exchange(GATEWAYS[vr_gw], dataCid, res))
    /\ IF ~res.error
       THEN /\ vr_data' = res.data
            /\ UNCHANGED vr_gw
            /\ IF res.data = JsonNull
               THEN returns(0)
               ELSE returns(IF validate(res.data, vr_schema) THEN 1 ELSE 0)
       ELSE /\ UNCHANGED vr_data
            /\ IF vr_gw < Len(GATEWAYS)
               THEN vr_gw' = vr_gw + 1 /\ UNCHANGED <<vr_pc, vr_result>>
               ELSE returns(0) /\ UNCHANGED vr_gw
    /\ UNCHANGED <<vr_args, vr_schema>>
    /\ UNCHANGED <<now, balance, emVars, brVars, drVars, fcVars, rgVars>>

\* ------------------------------------------------------ specifications

InitConstructed ==
    /\ now = 1
    /\ balance = [a \in Addresses |-> IF a \in EOAs THEN InitialFunds ELSE 0]
    /\ em_bountyRegistry = Zero
    /\ em_dataRegistry = Zero
    /\ escrows = [b \in EscrowIds |-> NoEscrow]
    /\ totalDeposits = 0
    /\ totalReleased = 0
    /\ totalRefunded = 0
    /\ br_escrowManager = Zero
    /\ br_dataRegistry = Zero
    /\ bounties = [b \in BountyIds |-> NoBounty]
    /\ bountyIdCounter = 0
    /\ dr_functionsConsumer = FC
    /\ submissions = [s \in SubmissionIds |-> NoSubmission]
    /\ submissionIdCounter = 0
    /\ bountySubmissions = [b \in BountyIds |-> <<>>]
    /\ paymentReleased = [s \in SubmissionIds |-> 0]
    /\ requestIdToSubmission = [r \in RequestIds |-> 0]
    /\ requestArgs = [r \in RequestIds |-> NoRequest]
    /\ notEntered

Init == InitConstructed /\ loaded(<<>>)

\* The state the deployment leaves: every contract constructed, then bound
\* to the others by the owner.
InitDeployed ==
    /\ now = 1
    /\ balance = [a \in Addresses |-> IF a \in EOAs THEN InitialFunds ELSE 0]
    /\ em_bountyRegistry = BR
    /\ em_dataRegistry = DR
    /\ escrows = [b \in EscrowIds |-> NoEscrow]
    /\ totalDeposits = 0
    /\ totalReleased = 0
    /\ totalRefunded = 0
    /\ br_escrowManager = EM
    /\ br_dataRegistry = DR
    /\ bounties = [b \in BountyIds |-> NoBounty]
    /\ bountyIdCounter = 0
    /\ dr_functionsConsumer = FC
    /\ submissions = [s \in SubmissionIds |-> NoSubmission]
    /\ submissionIdCounter = 0
    /\ bountySubmissions = [b \in BountyIds |-> <<>>]
    /\ paymentReleased = [s \in SubmissionIds |-> 0]
    /\ requestIdToSubmission = [r \in RequestIds |-> 0]
    /\ requestArgs = [r \in RequestIds |-> NoRequest]
    /\ notEntered
    /\ loaded(<<>>)

\* The EscrowManager on its own, its two registry roles bound by the owner
\* to plain accounts that call it directly.
EscrowCallers == {Owner, Operator, Oracle, Creator}
EscrowDepositors == {Zero, Creator, EM}
EscrowRecipients == {Zero, Contributor, EM}

NextEscrow ==
    \/ \E c \in EscrowCallers, a \in {Zero, Operator} : EM_setBountyRegistry(c, a)
    \/ \E c \in EscrowCallers, a \in {Zero, Oracle} : EM_setDataRegistry(c, a)
    \/ \E c \in EscrowCallers, v \in Values, b \in EscrowIds,
          d \in EscrowDepositors : deposit(c, v, b, d)
    \/ \E c \in EscrowCallers, v \in Values, b \in EscrowIds :
          increaseDeposit(c, v, b)
    \/ \E c \in EscrowCallers, b \in EscrowIds, r \in EscrowRecipients :
          release(c, b, r)
    \/ \E c \in EscrowCallers, b \in EscrowIds : refund(c, b)
    \/ \E c \in EscrowCallers, b \in EscrowIds, r \in EscrowRecipients :
          emergencyWithdraw(c, b, r)
    \/ \E c \in EscrowCallers, v \in Values : EM_receive(c, v)


SpecEscrow == Init /\ [][NextEscrow]_vars

\* The deployed system.  Each entry point is called by the account it is
\* meant for and by one that is not.
Sponsors == {Creator}
Submitters == {Contributor}
Funders == {Owner}
CreatorOrNot == {Creator, Contributor}
DispatcherOrNot == {FC, Contributor}
OwnerOrNot == {Owner, Creator}
Cids == {"", "QmData"}
Deadlines == 1 .. MaxTime
Caps == {0, 1, 2}
WithdrawRecipients == {Zero, DR}

Next ==
    \/ \E c \in Sponsors, v \in Values, d \in Deadlines, m \in Caps :
          createBounty(c, v, "QmSchema", d, m)
    \/ \E c \in CreatorOrNot, b \in BountyIds : cancelBounty(c, b)
    \/ \E c \in DispatcherOrNot, b \in BountyIds : completeBounty(c, b)
    \/ \E c \in CreatorOrNot, v \in Values, b \in BountyIds :
          increaseReward(c, v, b)
    \/ \E c \in CreatorOrNot, b \in BountyIds, d \in Deadlines :
          extendDeadline(c, b, d)
    \/ \E c \in CreatorOrNot, b \in BountyIds : expireBounty(c, b)
    \/ \E c \in DispatcherOrNot, b \in BountyIds : incrementSubmissions(c, b)
    \/ \E c \in Submitters, b \in BountyIds, cid \in Cids :
          submitData(c, b, cid)
    \/ \E c \in DispatcherOrNot, s \in SubmissionIds, v \in BOOLEAN :
          handleVerificationResult(c, s, v)
    \/ \E c \in Funders : DR_receive(c, balance[c])
    \/ \E c \in OwnerOrNot, b \in BountyIds, r \in WithdrawRecipients :
          emergencyWithdraw(c, b, r)
    \/ Tick

Spec == InitDeployed /\ [][Next]_vars

\* The BountyRegistry with its EscrowManager, bound by the owner after
\* construction; the DataRegistry role is held by a plain account that
\* calls completeBounty and incrementSubmissions directly.
RegistryKeepers == {Oracle, Creator}

NextRegistry ==
    \/ \E c \in OwnerOrNot, a \in {Zero, BR} : EM_setBountyRegistry(c, a)
    \/ \E c \in OwnerOrNot, a \in {Zero, EM} : BR_setEscrowManager(c, a)
    \/ \E c \in OwnerOrNot, a \in {Zero, Oracle} : BR_setDataRegistry(c, a)
    \/ \E c \in Sponsors, v \in Values, d \in Deadlines, m \in Caps :
          createBounty(c, v, "QmSchema", d, m)
    \/ \E c \in CreatorOrNot, b \in BountyIds : cancelBounty(c, b)
    \/ \E c \in RegistryKeepers, b \in BountyIds : completeBounty(c, b)
    \/ \E c \in CreatorOrNot, v \in Values, b \in BountyIds :
          increaseReward(c, v, b)
    \/ \E c \in CreatorOrNot, b \in BountyIds, d \in Deadlines :
          extendDeadline(c, b, d)
    \/ \E c \in CreatorOrNot, b \in BountyIds : expireBounty(c, b)
    \/ \E c \in RegistryKeepers, b \in BountyIds : incrementSubmissions(c, b)
    \/ \E c \in OwnerOrNot, b \in BountyIds, r \in WithdrawRecipients :
          emergencyWithdraw(c, b, r)
    \/ Tick

SpecRegistry == Init /\ [][NextRegistry]_vars

\* The three contracts from construction on, each role bound by the owner:
\* the registries to each other, the EscrowManager's two roles and, later,
\* the FunctionsConsumer role also to plain accounts that call the
\* privileged entry points directly, as the unit tests do.
AccessCallers == {Owner, Operator, Oracle}

NextAccess ==
    \/ \E c \in OwnerOrNot, a \in {Operator, BR} : EM_setBountyRegistry(c, a)
    \/ \E c \in OwnerOrNot : EM_setDataRegistry(c, Oracle)
    \/ \E c \in OwnerOrNot : BR_setEscrowManager(c, EM)
    \/ \E c \in OwnerOrNot : BR_setDataRegistry(c, DR)
    \/ \E c \in OwnerOrNot : setFunctionsConsumer(c, Oracle)
    \/ \E c \in Sponsors : createBounty(c, MIN_REWARD, "QmSchema", MaxTime, 1)
    \/ \E c \in AccessCallers, b \in BountyIds :
          deposit(c, MIN_REWARD, b, Creator)
    \/ \E c \in AccessCallers, b \in BountyIds : increaseDeposit(c, 1, b)
    \/ \E c \in AccessCallers, b \in BountyIds : refund(c, b)
    \/ \E c \in AccessCallers, b \in BountyIds : release(c, b, Contributor)
    \/ \E c \in AccessCallers, b \in BountyIds :
          emergencyWithdraw(c, b, Contributor)
    \/ \E c \in AccessCallers, b \in BountyIds : completeBounty(c, b)
    \/ \E c \in AccessCallers, b \in BountyIds : incrementSubmissions(c, b)
    \/ \E c \in Submitters, b \in BountyIds : submitData(c, b, "QmData")
    \/ \E c \in AccessCallers, s \in SubmissionIds, v \in BOOLEAN :
          handleVerificationResult(c, s, v)

SpecAccess == Init /\ [][NextAccess]_vars

\* The deployed system with its FunctionsConsumer: a funded bounty takes
\* submissions and may be cancelled or expire, anyone may ask the
\* FunctionsConsumer for a verification, and the router delivers the answers.
Requesters == {Operator}
SchemaUris == {"", "QmSchema"}
\* Answers of the DON: nothing, a single byte, the words 0, 1 and 2, and a
\* word whose top byte is 1.
Responses ==
    {<<>>, <<1>>, encodeUint256(0), encodeUint256(1), encodeUint256(2),
     [i \in 1 .. 32 |-> IF i = 1 THEN 1 ELSE 0]}
DonErrors == {"", "error"}

NextDispatch ==
    \/ \E c \in Sponsors :
          createBounty(c, MIN_REWARD, "QmSchema", MaxTime - 1, MaxSubmissions)
    \/ \E c \in Sponsors, b \in BountyIds : cancelBounty(c, b)
    \/ \E c \in Submitters, b \in BountyIds : expireBounty(c, b)
    \/ \E c \in Funders : DR_receive(c, balance[c])
    \/ \E c \in Submitters, b \in BountyIds : submitData(c, b, "QmData")
    \/ \E c \in Requesters, s \in SubmissionIds, cid \in Cids,
          u \in SchemaUris : requestVerification(c, s, cid, u)
    \/ \E r \in RequestIds, response \in Responses, e \in DonErrors :
          fulfillRequest(r, response, e)
    \/ Tick

SpecDispatch == InitDeployed /\ [][NextDispatch]_vars

\* The verification routine run by the DON, on its own: the arguments it is
\* started with and the answers of the gateways are the inputs.
object == <<"o", "b", "j", "e", "c", "t">>
string == <<"s", "t", "r", "i", "n", "g">>
integer == <<"i", "n", "t", "e", "g", "e", "r">>
number == <<"n", "u", "m", "b", "e", "r">>
array == <<"a", "r", "r", "a", "y">>

\* The fixtures of source.test.ts, with shorter strings and a pattern
\* without metacharacters.
VALID_SCHEMA ==
    Obj(<< <<"type", Str(object)>>,
           <<"required", Arr(<<Str(<<"n", "a", "m", "e">>),
                               Str(<<"a", "g", "e">>)>>)>>,
           <<"properties", Obj(<<
               <<"name", Obj(<< <<"type", Str(string)>>,
                                <<"minLength", Num(1)>> >>)>>,
               <<"age", Obj(<< <<"type", Str(integer)>>,
                               <<"minimum", Num(0)>> >>)>>,
               <<"email", Obj(<< <<"type", Str(string)>>,
                                 <<"pattern", Str(<<"@">>)>> >>)>> >>)>> >>)

VALID_DATA ==
    Obj(<< <<"name", Str(<<"A", "l">>)>>, <<"age", Num(30)>>,
           <<"email", Str(<<"a", "@", "b">>)>> >>)

MISSING_REQUIRED_DATA == Obj(<< <<"name", Str(<<"B", "o", "b">>)>> >>)

WRONG_TYPE_DATA ==
    Obj(<< <<"name", Str(<<"C", "y">>)>>, <<"age", Str(<<"x">>)>> >>)

NEGATIVE_AGE_DATA ==
    Obj(<< <<"name", Str(<<"D">>)>>, <<"age", Num(-1)>> >>)

FRACTION_AGE_DATA ==
    Obj(<< <<"name", Str(<<"E">>)>>, <<"age", Half(30)>> >>)

EMPTY_NAME_DATA == Obj(<< <<"name", Str(<<>>)>>, <<"age", Num(1)>> >>)

BAD_EMAIL_DATA ==
    Obj(<< <<"name", Str(<<"F">>)>>, <<"age", Num(1)>>,
           <<"email", Str(<<"a", "b">>)>> >>)

ENUM_SCHEMA ==
    Obj(<< <<"type", Str(object)>>,
           <<"required", Arr(<<Str(<<"s", "t", "a", "t", "u", "s">>)>>)>>,
           <<"properties", Obj(<<
               <<"status", Obj(<< <<"type", Str(string)>>,
                                  <<"enum", Arr(<<Str(<<"o", "n">>),
                                                  Str(<<"o", "f", "f">>)>>)>>
                               >>)>> >>)>> >>)

VALID_ENUM_DATA == Obj(<< <<"status", Str(<<"o", "n">>)>> >>)
INVALID_ENUM_DATA == Obj(<< <<"status", Str(<<"d", "e", "l">>)>> >>)

STRING_LENGTH_SCHEMA ==
    Obj(<< <<"type", Str(object)>>,
           <<"required", Arr(<<Str(<<"c", "o", "d", "e">>)>>)>>,
           <<"properties", Obj(<<
               <<"code", Obj(<< <<"type", Str(string)>>,
                                <<"minLength", Num(2)>>,
                                <<"maxLength", Num(3)>> >>)>> >>)>> >>)

GOOD_STRING_DATA == Obj(<< <<"code", Str(<<"A", "B", "C">>)>> >>)
SHORT_STRING_DATA == Obj(<< <<"code", Str(<<"A">>)>> >>)
LONG_STRING_DATA == Obj(<< <<"code", Str(<<"A", "B", "C", "D">>)>> >>)

ARRAY_SCHEMA ==
    Obj(<< <<"type", Str(object)>>,
           <<"required", Arr(<<Str(<<"t", "a", "g", "s">>)>>)>>,
           <<"properties", Obj(<<
               <<"tags", Obj(<< <<"type", Str(array)>>,
                                <<"items", Obj(<< <<"type", Str(string)>> >>)>>,
                                <<"minItems", Num(1)>>,
                                <<"maxItems", Num(2)>> >>)>> >>)>> >>)

VALID_ARRAY_DATA ==
    Obj(<< <<"tags", Arr(<<Str(<<"w">>), Str(<<"i">>)>>)>> >>)
INVALID_ARRAY_ITEMS_DATA ==
    Obj(<< <<"tags", Arr(<<Str(<<"w">>), Num(42)>>)>> >>)
NO_ITEMS_DATA == Obj(<< <<"tags", Arr(<<>>)>> >>)
MANY_ITEMS_DATA ==
    Obj(<< <<"tags", Arr(<<Str(<<"w">>), Str(<<"i">>), Str(<<"p">>)>>)>> >>)

\* Further schemas for the keywords the fixtures leave out.
CLOSED_SCHEMA ==
    Obj(<< <<"type", Str(object)>>,
           <<"properties", Obj(<<
               <<"a", Obj(<< <<"type", Str(number)>>,
                             <<"maximum", Num(1)>> >>)>> >>)>>,
           <<"additionalProperties", Bool(FALSE)>> >>)

BARE_CLOSED_SCHEMA ==
    Obj(<< <<"type", Str(object)>>,
           <<"additionalProperties", Bool(FALSE)>> >>)

ONE_KEY_DATA == Obj(<< <<"a", Num(1)>> >>)
BIG_KEY_DATA == Obj(<< <<"a", Num(2)>> >>)
TWO_KEY_DATA == Obj(<< <<"a", Num(1)>>, <<"b", Num(2)>> >>)
SWAPPED_KEY_DATA == Obj(<< <<"b", Num(2)>>, <<"a", Num(1)>> >>)
EMPTY_DATA == Obj(<<>>)

CONST_SCHEMA == Obj(<< <<"const", Num(1)>> >>)
ENUM_OBJECT_SCHEMA == Obj(<< <<"enum", Arr(<<TWO_KEY_DATA>>)>> >>)
NESTED_SCHEMA ==
    Obj(<< <<"type", Str(object)>>,
           <<"required", Arr(<<Str(<<"o", "w", "n", "e", "r">>)>>)>>,
           <<"properties", Obj(<< <<"owner", VALID_SCHEMA>> >>)>> >>)

NESTED_VALID_DATA == Obj(<< <<"owner", VALID_DATA>> >>)
NESTED_WRONG_TYPE_DATA == Obj(<< <<"owner", WRONG_TYPE_DATA>> >>)

Schemas ==
    {VALID_SCHEMA, ENUM_SCHEMA, STRING_LENGTH_SCHEMA, ARRAY_SCHEMA,
     CLOSED_SCHEMA, BARE_CLOSED_SCHEMA, CONST_SCHEMA, ENUM_OBJECT_SCHEMA,
     NESTED_SCHEMA, EMPTY_DATA}

Data ==
    {VALID_DATA, MISSING_REQUIRED_DATA, WRONG_TYPE_DATA, NEGATIVE_AGE_DATA,
     FRACTION_AGE_DATA, EMPTY_NAME_DATA, BAD_EMAIL_DATA, VALID_ENUM_DATA,
     INVALID_ENUM_DATA, GOOD_STRING_DATA, SHORT_STRING_DATA,
     LONG_STRING_DATA, VALID_ARRAY_DATA, INVALID_ARRAY_ITEMS_DATA,
     NO_ITEMS_DATA, MANY_ITEMS_DATA, ONE_KEY_DATA, BIG_KEY_DATA,
     TWO_KEY_DATA, SWAPPED_KEY_DATA, EMPTY_DATA, NESTED_VALID_DATA,
     NESTED_WRONG_TYPE_DATA}

\* Bodies that parse as JSON but are no object.
Scalars ==
    {JsonNull, Bool(TRUE), Num(1), Num(2), Str(<<"x">>), Arr(<<>>)}

Docs == Schemas \cup Data \cup Scalars

\* What Functions.makeHttpRequest resolves to.
HttpResponses ==
    {[error |-> TRUE, data |-> Undefined]}
        \cup {[error |-> FALSE, data |-> d] : d \in Docs}

ArgLists ==
    {<<>>, <<"QmData">>, <<"", "QmSchema">>, <<"QmData", "QmSchema">>,
     <<"QmData", "QmSchema", "http://127.0.0.1/">>}

InitRoutine == InitConstructed /\ \E a \in ArgLists : loaded(a)

NextRoutine ==
    \/ checkArguments
    \/ \E res \in HttpResponses : fetchSchema(res)
    \/ \E res \in HttpResponses : fetchData(res)

SpecRoutine == InitRoutine /\ [][NextRoutine]_vars

\* The EscrowManager and the BountyRegistry from construction on, with
\* recipients that have code.  The owner binds the EscrowManager's roles,
\* first to plain accounts that fund and pay out escrows directly and then
\* to the BountyRegistry; every call that transfers value stops at its
\* transfer, and until the recipient returns only the recipient acts: it
\* calls release, refund, emergencyWithdraw, cancelBounty and expireBounty.
ReentryRecipients == {Owner, Oracle, Creator}

NextReentry ==
    \/ /\ em_transfer = NoTransfer
       /\ \/ \E a \in {Operator, BR} : EM_setBountyRegistry(Owner, a)
          \/ EM_setDataRegistry(Owner, Oracle)
          \/ BR_setEscrowManager(Owner, EM)
          \/ deposit(Operator, 1, 1, Operator)
          \/ createBounty(Creator, MIN_REWARD, "QmSchema", MaxTime - 1, 1)
          \/ Tick
    \/ \E b \in EscrowIds, r \in ReentryRecipients :
          release_call(Oracle, b, r)
    \/ \E b \in EscrowIds : refund_call(Operator, b)
    \/ \E b \in EscrowIds, r \in ReentryRecipients :
          emergencyWithdraw_call(Owner, b, r)
    \/ \E b \in BountyIds : cancelBounty_call(Creator, b)
    \/ \E b \in BountyIds : expireBounty_call(Contributor, b)
    \/ /\ em_transfer # NoTransfer
       /\ \/ \E b \in EscrowIds, r \in ReentryRecipients :
                release(em_transfer.to, b, r)
          \/ \E b \in EscrowIds : refund(em_transfer.to, b)
          \/ \E b \in EscrowIds, r \in ReentryRecipients :
                emergencyWithdraw(em_transfer.to, b, r)
          \/ \E b \in BountyIds : cancelBounty(em_transfer.to, b)
          \/ \E b \in BountyIds : expireBounty(em_transfer.to, b)
    \/ transfer_return

SpecReentry == Init /\ [][NextReentry]_vars

\* The deployed system with bounties that all start with the same deadline,
\* one tick before the end of time: a later deadline comes from
\* extendDeadline alone.
NextDeadline ==
    \/ \E c \in Sponsors :
          createBounty(c, MIN_REWARD, "QmSchema", MaxTime - 1, MaxSubmissions)
    \/ \E c \in CreatorOrNot, b \in BountyIds, d \in Deadlines :
          extendDeadline(c, b, d)
    \/ \E c \in Sponsors, b \in BountyIds : increaseReward(c, 1, b)
    \/ \E c \in Sponsors, b \in BountyIds : cancelBounty(c, b)
    \/ \E c \in Submitters, b \in BountyIds : expireBounty(c, b)
    \/ \E c \in Submitters, b \in BountyIds : submitData(c, b, "QmData")
    \/ \E s \in SubmissionIds, v \in BOOLEAN :
          handleVerificationResult(FC, s, v)
    \/ \E b \in BountyIds : emergencyWithdraw(Owner, b, DR)
    \/ Tick

SpecDeadline == InitDeployed /\ [][NextDeadline]_vars

\* ----------------------------------------------------------- claims

RECURSIVE SumAmounts(_)
SumAmounts(ids) ==
    IF ids = {} THEN 0
    ELSE LET b == CHOOSE x \in ids : TRUE
         IN  escrows[b].amount + SumAmounts(ids \ {b})

FundedIds == {b \in EscrowIds : escrows[b].status = "FUNDED"}
FundedSum == SumAmounts(FundedIds)

\* C1.  Conservation: after every EscrowManager operation, over any ids and
\* whether the call succeeded or reverted, totalDeposits equals
\* totalReleased + totalRefunded + the sum of the amounts of all FUNDED
\* escrows.
C1_Conservation ==
    totalDeposits = totalReleased + totalRefunded + FundedSum

\* One escrow released, one refunded and one still funded cannot coexist
\* with two ids; the witness has a released escrow beside a funded one that
\* was topped up.
C1_Witness ==
    /\ \E b \in EscrowIds : escrows[b].status = "RELEASED"
    /\ \E b \in EscrowIds : escrows[b].status = "FUNDED" /\ escrows[b].amount > 1
    /\ totalReleased > 0

emTotals == <<totalDeposits, totalReleased, totalRefunded>>

RejectingRecipients == {a \in Addresses : a # Zero /\ ~AcceptsValue(a)}

\* C6.  An escrow's status only moves NONE -> FUNDED and then FUNDED ->
\* RELEASED or FUNDED -> REFUNDED, and nothing leaves RELEASED or REFUNDED.
\* A deposit by the bound registry with a positive value and a nonzero
\* depositor for an id whose escrow is not NONE fails with
\* EscrowAlreadyExists; release, refund, emergencyWithdraw and
\* increaseDeposit by their authorised caller on an escrow that is not
\* FUNDED fail with InvalidEscrowStatus; such calls leave the escrow records
\* and the three totals unchanged.
C6_Errors ==
    \A b \in EscrowIds :
        /\ (escrows[b].status # "NONE" /\ em_bountyRegistry # Zero) =>
              \A v \in Values \ {0}, d \in Addresses \ {Zero} :
                  deposit_err(em_bountyRegistry, v, b, d)
                      = "EscrowAlreadyExists"
        /\ (escrows[b].status # "FUNDED" /\ em_bountyRegistry # Zero) =>
              /\ refund_err(em_bountyRegistry, b) = "InvalidEscrowStatus"
              /\ \A v \in Values \ {0} :
                     increaseDeposit_err(em_bountyRegistry, v, b)
                         = "InvalidEscrowStatus"
        /\ (escrows[b].status # "FUNDED" /\ em_dataRegistry # Zero) =>
              \A r \in Addresses \ {Zero} :
                  release_err(em_dataRegistry, b, r) = "InvalidEscrowStatus"
        /\ escrows[b].status # "FUNDED" =>
              \A r \in Addresses \ {Zero} :
                  emergencyWithdraw_err(Owner, b, r) = "InvalidEscrowStatus"

C6_Transitions ==
    \A b \in EscrowIds :
        escrows'[b].status # escrows[b].status =>
            \/ escrows[b].status = "NONE" /\ escrows'[b].status = "FUNDED"
            \/ /\ escrows[b].status = "FUNDED"
               /\ escrows'[b].status \in {"RELEASED", "REFUNDED"}

C6_Frame ==
    \A c \in EscrowCallers, b \in EscrowIds :
        /\ (/\ escrows[b].status # "NONE"
            /\ \E v \in Values, d \in EscrowDepositors : deposit(c, v, b, d))
              => UNCHANGED <<escrows, emTotals>>
        /\ (/\ escrows[b].status # "FUNDED"
            /\ \/ \E r \in EscrowRecipients : release(c, b, r)
               \/ \E r \in EscrowRecipients : emergencyWithdraw(c, b, r)
               \/ refund(c, b)
               \/ \E v \in Values : increaseDeposit(c, v, b))
              => UNCHANGED <<escrows, emTotals>>

\* C6: the errors in every state, the transitions and the frame in every step.
C6_EscrowStatusMachine ==
    []C6_Errors /\ [][C6_Transitions /\ C6_Frame]_vars

\* Both terminal statuses have been reached, each from FUNDED, while the
\* registries are still bound and could call again.
C6_Witness ==
    /\ \E b \in EscrowIds : escrows[b].status = "RELEASED"
    /\ \E b \in EscrowIds : escrows[b].status = "REFUNDED"
    /\ em_bountyRegistry # Zero
    /\ em_dataRegistry # Zero

\* C10.  When the recipient of release or emergencyWithdraw, or the
\* depositor for refund, rejects value, the call on a FUNDED escrow fails
\* with TransferFailed and leaves the escrow, the totals and all balances as
\* they were; the EscrowManager always holds exactly the FUNDED amounts, and
\* a step that makes an escrow RELEASED or REFUNDED moves its full amount
\* out of the EscrowManager.
C10_Errors ==
    \A b \in EscrowIds :
        escrows[b].status = "FUNDED" =>
            /\ \A r \in RejectingRecipients :
                   /\ emergencyWithdraw_err(Owner, b, r) = "TransferFailed"
                   /\ em_dataRegistry # Zero =>
                          release_err(em_dataRegistry, b, r)
                              = "TransferFailed"
            /\ (/\ escrows[b].depositor \in RejectingRecipients
                /\ em_bountyRegistry # Zero) =>
                   refund_err(em_bountyRegistry, b) = "TransferFailed"

C10_Custody == balance[EM] = FundedSum

C10_FailClosed ==
    \A c \in EscrowCallers, b \in EscrowIds :
        /\ \A r \in EscrowRecipients :
               (/\ r \in RejectingRecipients
                /\ release(c, b, r) \/ emergencyWithdraw(c, b, r))
                  => UNCHANGED <<escrows, emTotals, balance>>
        /\ (escrows[b].depositor \in RejectingRecipients /\ refund(c, b))
              => UNCHANGED <<escrows, emTotals, balance>>

C10_PaidOut ==
    \A b \in EscrowIds :
        (/\ escrows'[b].status # escrows[b].status
         /\ escrows'[b].status \in {"RELEASED", "REFUNDED"}) =>
            /\ escrows'[b].amount = escrows[b].amount
            /\ balance'[EM] = balance[EM] - escrows[b].amount
            /\ \E a \in Addresses \ {EM} :
                   balance'[a] = balance[a] + escrows[b].amount

\* C10: TransferFailed and custody in every state, fail-closed and paid-out in
\* every step.
C10_TransferFailed ==
    /\ []C10_Errors
    /\ []C10_Custody
    /\ [][C10_FailClosed /\ C10_PaidOut]_vars

\* A funded escrow whose depositor rejects value, with a registry bound that
\* can ask for the refund.
C10_Witness ==
    \E b \in EscrowIds :
        /\ escrows[b].status = "FUNDED"
        /\ escrows[b].depositor \in RejectingRecipients
        /\ em_bountyRegistry # Zero
        /\ refund_err(em_bountyRegistry, b) = "TransferFailed"

\* C2.  For every submission, over every sequence of operations with any
\* number of verification callbacks of either verdict, value reaches the
\* contributor on account of that submission at most once, and only in a
\* call that leaves the submission VERIFIED.
C2_PaidOnlyIfVerified ==
    \A s \in SubmissionIds :
        /\ paymentReleased[s] <= 1
        /\ paymentReleased[s] = 1 <=> submissions[s].status = "VERIFIED"

C2_PaymentStep ==
    /\ \A s \in SubmissionIds :
           paymentReleased'[s] # paymentReleased[s] =>
               /\ paymentReleased[s] = 0
               /\ paymentReleased'[s] = 1
               /\ submissions'[s].status = "VERIFIED"
               /\ balance'[submissions[s].contributor] =
                      balance[submissions[s].contributor]
                          + bountyOf(submissions[s].bountyId).reward
    /\ \A a \in Submitters :
           balance'[a] > balance[a] =>
               \E s \in SubmissionIds :
                   /\ submissions[s].contributor = a
                   /\ paymentReleased'[s] = paymentReleased[s] + 1

\* C2: paid at most once and only when VERIFIED, in every state and step.
C2_ExactlyOncePayment ==
    []C2_PaidOnlyIfVerified /\ [][C2_PaymentStep]_vars

\* A contributor holding exactly one reward more than at the start, for a
\* submission whose payment was recorded once.
C2_Witness ==
    \E s \in SubmissionIds :
        /\ paymentReleased[s] = 1
        /\ balance[submissions[s].contributor] =
               InitialFunds + bountyOf(submissions[s].bountyId).reward

\* C3.  When handleVerificationResult(submissionId, true) from the bound
\* FunctionsConsumer succeeds for a VERIFYING submission of an ACTIVE bounty,
\* afterwards the submission is VERIFIED, the bounty COMPLETED, the bounty's
\* escrow RELEASED, and the contributor has received exactly the amount the
\* escrow held.
C3_VerifiedStep ==
    \A s \in SubmissionIds :
        LET b == submissions[s].bountyId
            contributor == submissions[s].contributor
        IN  (/\ submissions[s].status = "VERIFYING"
             /\ bountyOf(b).status = "ACTIVE"
             /\ handleVerificationResult_err(dr_functionsConsumer, s, TRUE)
                    = "ok"
             /\ handleVerificationResult(dr_functionsConsumer, s, TRUE)) =>
                /\ submissions'[s].status = "VERIFIED"
                /\ bounties'[b].status = "COMPLETED"
                /\ escrows'[b].status = "RELEASED"
                /\ balance'[contributor] =
                       balance[contributor] + escrows[b].amount

\* C3: every successful verified callback has the four stated effects.
C3_VerifiedCallback == [][C3_VerifiedStep]_vars

\* C4.  When handleVerificationResult(submissionId, false) succeeds, the
\* submission becomes REJECTED and nothing else changes: no balance, no
\* bounty field, no escrow, no total, no other submission; and afterwards a
\* submitData with a nonempty cid on that bounty succeeds whenever the
\* bounty is ACTIVE, under its cap and not past its deadline.
C4_RejectedStep ==
    \A s \in SubmissionIds :
        LET b == submissions[s].bountyId
        IN  (/\ handleVerificationResult_err(dr_functionsConsumer, s, FALSE)
                    = "ok"
             /\ handleVerificationResult(dr_functionsConsumer, s, FALSE)) =>
                /\ submissions' =
                       [submissions EXCEPT ![s].status = "REJECTED"]
                /\ UNCHANGED <<balance, bounties, escrows, emTotals,
                               submissionIdCounter, bountySubmissions,
                               paymentReleased>>
                /\ (/\ bounties'[b].status = "ACTIVE"
                    /\ now' <= bounties'[b].deadline
                    /\ bounties'[b].submissionCount
                           < bounties'[b].maxSubmissions) =>
                       \A c \in Submitters :
                           (submitData_err(c, b, "QmData") = "ok")'

\* C4: every successful rejected callback changes only the submission's status.
C4_RejectedCallback == [][C4_RejectedStep]_vars

\* A rejected submission followed by a later submission accepted on the same
\* bounty, whose escrow is still funded.
C4_Witness ==
    \E s, t \in SubmissionIds :
        /\ s < t
        /\ submissions[s].status = "REJECTED"
        /\ submissions[t].contributor # Zero
        /\ submissions[t].bountyId = submissions[s].bountyId
        /\ escrows[submissions[s].bountyId].status = "FUNDED"

\* C5.  For a submission that is VERIFIED or REJECTED, every further
\* handleVerificationResult from the bound FunctionsConsumer, with either
\* verdict, fails with InvalidStatus and changes nothing.
C5_Errors ==
    \A s \in SubmissionIds, v \in BOOLEAN :
        submissions[s].status \in {"VERIFIED", "REJECTED"} =>
            handleVerificationResult_err(dr_functionsConsumer, s, v)
                = "InvalidStatus"

C5_Frame ==
    \A s \in SubmissionIds, v \in BOOLEAN :
        (/\ submissions[s].status \in {"VERIFIED", "REJECTED"}
         /\ handleVerificationResult(dr_functionsConsumer, s, v)) =>
            UNCHANGED vars

\* C5: InvalidStatus in every state, no change in every such step.
C5_RepeatedCallback == []C5_Errors /\ [][C5_Frame]_vars

\* One submission rejected and another verified, both open to a repeated
\* callback.
C5_Witness ==
    /\ \E s \in SubmissionIds : submissions[s].status = "REJECTED"
    /\ \E s \in SubmissionIds : submissions[s].status = "VERIFIED"

TerminalBountyStatuses == {"COMPLETED", "CANCELLED", "EXPIRED"}

\* C7.  Once a bounty is COMPLETED, CANCELLED or EXPIRED its status never
\* changes again: cancelBounty, increaseReward and extendDeadline by its
\* creator, expireBounty by anyone and completeBounty by the bound
\* DataRegistry all fail with InvalidStatus, and such a call leaves the
\* bounties, the escrows, the totals and every balance unchanged.
C7_Errors ==
    \A b \in BountyIds :
        bounties[b].status \in TerminalBountyStatuses =>
            /\ cancelBounty_err(bounties[b].creator, b) = "InvalidStatus"
            /\ \A c \in Addresses \ {Zero} :
                   expireBounty_err(c, b) = "InvalidStatus"
            /\ br_dataRegistry # Zero =>
                   completeBounty_err(br_dataRegistry, b) = "InvalidStatus"
            /\ \A v \in Values :
                   increaseReward_err(bounties[b].creator, v, b)
                       = "InvalidStatus"
            /\ \A d \in Deadlines :
                   extendDeadline_err(bounties[b].creator, b, d)
                       = "InvalidStatus"

C7_Step ==
    \A b \in BountyIds :
        bounties[b].status \in TerminalBountyStatuses =>
            /\ bounties'[b].status = bounties[b].status
            /\ (\E c \in CreatorOrNot \cup DispatcherOrNot \cup {DR} :
                    \/ cancelBounty(c, b)
                    \/ expireBounty(c, b)
                    \/ completeBounty(c, b)
                    \/ \E v \in Values : increaseReward(c, v, b)
                    \/ \E d \in Deadlines : extendDeadline(c, b, d))
                  => UNCHANGED <<bounties, escrows, emTotals, balance>>

\* C7: InvalidStatus in every state, terminal status kept in every step.
C7_TerminalBounty == []C7_Errors /\ [][C7_Step]_vars

\* A completed bounty whose deadline has passed, so that expireBounty would
\* otherwise be due, and whose escrow could still be refunded.
C7_Witness ==
    \E b \in BountyIds :
        /\ bounties[b].status = "COMPLETED"
        /\ now > bounties[b].deadline
        /\ escrows[b].status = "FUNDED"

\* C8.  Every bounty has submissionCount <= maxSubmissions; when an existing
\* bounty's count equals its cap, incrementSubmissions from the bound
\* DataRegistry fails with MaxSubmissionsReached and the count stays.
C8_Cap ==
    \A b \in BountyIds :
        /\ bounties[b].submissionCount <= bounties[b].maxSubmissions
        /\ (/\ bounties[b].creator # Zero
            /\ br_dataRegistry # Zero
            /\ bounties[b].submissionCount = bounties[b].maxSubmissions) =>
               incrementSubmissions_err(br_dataRegistry, b)
                   = "MaxSubmissionsReached"

C8_Step ==
    \A b \in BountyIds, c \in Addresses \ {Zero} :
        (/\ bounties[b].submissionCount = bounties[b].maxSubmissions
         /\ incrementSubmissions(c, b)) =>
            UNCHANGED bounties

\* C8: the cap in every state, the count kept by every call at the cap.
C8_CapEnforcement == []C8_Cap /\ [][C8_Step]_vars

\* A bounty counted up to a cap of two while the registry role is bound.
C8_Witness ==
    \E b \in BountyIds :
        /\ bounties[b].maxSubmissions = 2
        /\ bounties[b].submissionCount = 2
        /\ br_dataRegistry # Zero

AtCapOfTwo(b) ==
    /\ bounties[b].maxSubmissions = 2
    /\ bounties[b].submissionCount = 2
    /\ bounties[b].status = "ACTIVE"
    /\ now <= bounties[b].deadline

\* C9 as stated.  For an ACTIVE bounty before its deadline with
\* maxSubmissions = 2 and two accepted submissions, a third submitData fails
\* with MaxSubmissionsReached, raised by incrementSubmissions.
C9_ThirdFailsMaxSubmissionsReached ==
    \A b \in BountyIds, c \in Submitters :
        AtCapOfTwo(b) =>
            submitData_err(c, b, "QmData") = "MaxSubmissionsReached"

\* C9 amended.  In that state the third submitData fails with
\* BountyNotActive, raised by the isBountyActive check before
\* incrementSubmissions is reached, and records no submission.
C9_AtCapErr ==
    \A b \in BountyIds, c \in Submitters, cid \in Cids :
        AtCapOfTwo(b) =>
            /\ ~isBountyActive(b)
            /\ submitData_err(c, b, cid) = "BountyNotActive"

C9_AtCapStep ==
    \A b \in BountyIds, c \in Submitters, cid \in Cids :
        (AtCapOfTwo(b) /\ submitData(c, b, cid)) =>
            UNCHANGED <<submissions, submissionIdCounter, bountySubmissions,
                        bounties>>

\* C9 amended: BountyNotActive in every such state, nothing recorded in every
\* such step.
C9_ThirdFailsBountyNotActive == []C9_AtCapErr /\ [][C9_AtCapStep]_vars

\* Two submissions accepted on a bounty with a cap of two that is still
\* ACTIVE and before its deadline.
C9_Witness ==
    \E b \in BountyIds :
        /\ AtCapOfTwo(b)
        /\ Len(bountySubmissions[b]) = 2

\* C11.  When the completion step or the payment step of
\* handleVerificationResult(submissionId, true) fails, the whole call fails
\* and leaves every variable as it was: the submission stays VERIFYING, the
\* bounty keeps its status, the escrow is untouched.  Hence every VERIFIED
\* submission has been paid, and its bounty is COMPLETED.
C11_VerifiedIsPaid ==
    \A s \in SubmissionIds :
        submissions[s].status = "VERIFIED" =>
            /\ paymentReleased[s] = 1
            /\ bounties[submissions[s].bountyId].status = "COMPLETED"

C11_FailedStep ==
    \A s \in SubmissionIds :
        (/\ submissions[s].status = "VERIFYING"
         /\ \/ completeBounty_err(DR, submissions[s].bountyId) # "ok"
            \/ releasePayment_err(s, bountyOf(submissions[s].bountyId).reward)
                   # "ok"
         /\ handleVerificationResult(dr_functionsConsumer, s, TRUE)) =>
            UNCHANGED vars

C11_FailedErr ==
    \A s \in SubmissionIds :
        submissions[s].status = "VERIFYING" =>
            LET b == submissions[s].bountyId
                err == handleVerificationResult_err(dr_functionsConsumer, s,
                                                    TRUE)
            IN  /\ completeBounty_err(DR, b) # "ok" =>
                       err = completeBounty_err(DR, b)
                /\ (/\ completeBounty_err(DR, b) = "ok"
                    /\ releasePayment_err(s, bountyOf(b).reward) # "ok") =>
                       err = "PaymentFailed"

\* C11: the failing callback's error in every state, its frame in every step,
\* and no unpaid VERIFIED submission in any state.
C11_AllOrNothingCallback ==
    /\ []C11_VerifiedIsPaid
    /\ []C11_FailedErr
    /\ [][C11_FailedStep]_vars

\* A submission awaiting its verdict whose bounty was already completed by
\* another, verified submission: its verified callback fails in the
\* completion step.
C11_Witness ==
    \E s \in SubmissionIds :
        /\ submissions[s].status = "VERIFYING"
        /\ handleVerificationResult_err(dr_functionsConsumer, s, TRUE)
               = "InvalidStatus"
        /\ \E t \in SubmissionIds : submissions[t].status = "VERIFIED"

\* C12.  Value reaches a contributor or a depositor only out of the
\* EscrowManager: in every step in which the balance of a sponsor or of a
\* submitter grows, the EscrowManager's balance shrinks by the same amount;
\* and the payment of a verified callback is taken out of the bounty's
\* escrow.
C12_PaidByCustodian ==
    /\ \A a \in Sponsors \cup Submitters :
           balance'[a] > balance[a] =>
               balance[EM] - balance'[EM] = balance'[a] - balance[a]
    /\ \A s \in SubmissionIds :
           paymentReleased'[s] # paymentReleased[s] =>
               /\ escrows[submissions[s].bountyId].status = "FUNDED"
               /\ escrows'[submissions[s].bountyId].status = "RELEASED"

C12_OnlyCustodianPays == [][C12_PaidByCustodian]_vars

Callers == Addresses \ {Zero}

\* C13.  Each privileged entry point fails with an authorization error for
\* every caller other than its bound principal, whatever its arguments and
\* the state: deposit, increaseDeposit and refund unless called by the bound
\* BountyRegistry, release unless called by the bound DataRegistry
\* (Unauthorized), emergencyWithdraw unless called by the owner
\* (OwnableUnauthorizedAccount), completeBounty and incrementSubmissions
\* unless called by the bound DataRegistry (Unauthorized, and
\* DataRegistryNotSet for every caller while none is bound),
\* handleVerificationResult unless called by the bound FunctionsConsumer
\* (Unauthorized); such a call changes nothing.
C13_Errors ==
    \A c \in Callers, b \in BountyIds :
        /\ c # em_bountyRegistry =>
               /\ \A v \in Values, d \in Addresses :
                      deposit_err(c, v, b, d) = "Unauthorized"
               /\ \A v \in Values :
                      increaseDeposit_err(c, v, b) = "Unauthorized"
               /\ refund_err(c, b) = "Unauthorized"
        /\ c # em_dataRegistry =>
               \A r \in Addresses : release_err(c, b, r) = "Unauthorized"
        /\ c # Owner =>
               \A r \in Addresses :
                   emergencyWithdraw_err(c, b, r)
                       = "OwnableUnauthorizedAccount"
        /\ br_dataRegistry = Zero =>
               /\ completeBounty_err(c, b) = "DataRegistryNotSet"
               /\ incrementSubmissions_err(c, b) = "DataRegistryNotSet"
        /\ (br_dataRegistry # Zero /\ c # br_dataRegistry) =>
               /\ completeBounty_err(c, b) = "Unauthorized"
               /\ incrementSubmissions_err(c, b) = "Unauthorized"
        /\ c # dr_functionsConsumer =>
               \A s \in SubmissionIds, v \in BOOLEAN :
                   handleVerificationResult_err(c, s, v) = "Unauthorized"

C13_Frame ==
    \A c \in AccessCallers, b \in BountyIds :
        /\ (/\ c # em_bountyRegistry
            /\ \/ deposit(c, MIN_REWARD, b, Creator)
               \/ increaseDeposit(c, 1, b)
               \/ refund(c, b)) => UNCHANGED vars
        /\ (c # em_dataRegistry /\ release(c, b, Contributor))
               => UNCHANGED vars
        /\ (c # Owner /\ emergencyWithdraw(c, b, Contributor))
               => UNCHANGED vars
        /\ (/\ c # br_dataRegistry
            /\ completeBounty(c, b) \/ incrementSubmissions(c, b))
               => UNCHANGED vars
        /\ (/\ c # dr_functionsConsumer
            /\ \E s \in SubmissionIds, v \in BOOLEAN :
                   handleVerificationResult(c, s, v)) => UNCHANGED vars

\* C13: the authorization error in every state, no change in every step of a
\* caller that is not the bound principal.
C13_AccessControl == []C13_Errors /\ [][C13_Frame]_vars

\* Every role is bound, the bound principals have acted (an escrow was
\* funded, a submission judged), and the FunctionsConsumer role has since
\* been handed to another account.
C13_Witness ==
    /\ em_bountyRegistry # Zero
    /\ em_dataRegistry # Zero
    /\ br_dataRegistry # Zero
    /\ dr_functionsConsumer = Oracle
    /\ \E b \in BountyIds : escrows[b].status # "NONE"
    /\ \E s \in SubmissionIds : submissions[s].status = "REJECTED"

\* C14.  cancelBounty, increaseReward and extendDeadline fail with
\* BountyNotFound for an id never created and with Unauthorized for every
\* caller other than the bounty's creator, changing nothing.  A bounty
\* becomes CANCELLED only in a cancelBounty of its creator and COMPLETED only
\* in a verified callback from the bound FunctionsConsumer, while
\* expireBounty on a due bounty is open to every caller.
C14_Errors ==
    \A b \in BountyIds, c \in Callers :
        /\ bounties[b].creator = Zero =>
               /\ cancelBounty_err(c, b) = "BountyNotFound"
               /\ \A v \in Values :
                      increaseReward_err(c, v, b) = "BountyNotFound"
               /\ \A d \in Deadlines :
                      extendDeadline_err(c, b, d) = "BountyNotFound"
        /\ (bounties[b].creator # Zero /\ c # bounties[b].creator) =>
               /\ cancelBounty_err(c, b) = "Unauthorized"
               /\ \A v \in Values :
                      increaseReward_err(c, v, b) = "Unauthorized"
               /\ \A d \in Deadlines :
                      extendDeadline_err(c, b, d) = "Unauthorized"
        /\ (/\ bounties[b].status = "ACTIVE"
            /\ now > bounties[b].deadline
            /\ escrows[b].status = "FUNDED") =>
               expireBounty_err(c, b) = "ok"

C14_Step ==
    \A b \in BountyIds :
        /\ \A c \in CreatorOrNot :
               (/\ c # bounties[b].creator
                /\ \/ cancelBounty(c, b)
                   \/ \E v \in Values : increaseReward(c, v, b)
                   \/ \E d \in Deadlines : extendDeadline(c, b, d))
                  => UNCHANGED vars
        /\ (/\ bounties'[b].status # bounties[b].status
            /\ bounties'[b].status = "CANCELLED")
              => cancelBounty(bounties[b].creator, b)
        /\ (/\ bounties'[b].status # bounties[b].status
            /\ bounties'[b].status = "COMPLETED")
              => \E s \in SubmissionIds :
                     handleVerificationResult(dr_functionsConsumer, s, TRUE)
        /\ (/\ bounties'[b].reward # bounties[b].reward
            /\ bounties[b].creator # Zero)
              => \E v \in Values : increaseReward(bounties[b].creator, v, b)
        /\ (/\ bounties'[b].deadline # bounties[b].deadline
            /\ bounties[b].creator # Zero)
              => \E d \in Deadlines :
                     extendDeadline(bounties[b].creator, b, d)

\* C14: the errors in every state, the creator-only effects in every step.
C14_CreatorOnly == []C14_Errors /\ [][C14_Step]_vars

\* A bounty past its deadline that a non-creator cannot cancel but can
\* expire.
C14_Witness ==
    \E b \in BountyIds :
        /\ bounties[b].status = "ACTIVE"
        /\ now > bounties[b].deadline
        /\ cancelBounty_err(Contributor, b) = "Unauthorized"
        /\ expireBounty_err(Contributor, b) = "ok"

\* C15.  A successful createBounty with value v by caller c takes as id the
\* number of bounties created before it, stores a bounty with creator c,
\* reward v, status ACTIVE and submissionCount 0, and in the same step creates
\* the escrow of that id, FUNDED, with depositor c and amount v, moving v
\* from c into the EscrowManager and adding v to totalDeposits; no other
\* bounty or escrow changes, and the id counter only ever grows, by one.
C15_Ids ==
    /\ Cardinality({b \in BountyIds : bounties[b].creator # Zero})
           = bountyIdCounter
    /\ \A b \in BountyIds : bounties[b].creator # Zero <=> b < bountyIdCounter

C15_Step ==
    /\ \A c \in Sponsors, v \in Values, d \in Deadlines, m \in Caps :
           (/\ createBounty_err(c, v, d, m) = "ok"
            /\ createBounty(c, v, "QmSchema", d, m)) =>
               LET id == bountyIdCounter
               IN  /\ bountyIdCounter' = id + 1
                   /\ bounties[id] = NoBounty
                   /\ bounties'[id].creator = c
                   /\ bounties'[id].reward = v
                   /\ bounties'[id].status = "ACTIVE"
                   /\ bounties'[id].submissionCount = 0
                   /\ escrows[id].status = "NONE"
                   /\ escrows'[id].status = "FUNDED"
                   /\ escrows'[id].depositor = c
                   /\ escrows'[id].amount = v
                   /\ \A b \in BountyIds \ {id} : bounties'[b] = bounties[b]
                   /\ \A b \in EscrowIds \ {id} : escrows'[b] = escrows[b]
                   /\ totalDeposits' = totalDeposits + v
                   /\ balance'[EM] = balance[EM] + v
                   /\ balance'[c] = balance[c] - v
    /\ bountyIdCounter' # bountyIdCounter =>
           /\ bountyIdCounter' = bountyIdCounter + 1
           /\ \E c \in Sponsors, v \in Values, d \in Deadlines, m \in Caps :
                  createBounty(c, v, "QmSchema", d, m)

C16_Errors ==
    \A c \in Callers, v \in Values, d \in Deadlines, m \in Caps :
        LET err == createBounty_err(c, v, d, m)
        IN  /\ v < MIN_REWARD => err = "InsufficientReward"
            /\ (v >= MIN_REWARD /\ d <= now) => err = "InvalidDeadline"
            /\ (v >= MIN_REWARD /\ d > now /\ m = 0) => err = "InvalidStatus"
            /\ (v >= MIN_REWARD /\ d > now /\ m # 0 /\ br_escrowManager = Zero)
                   => err = "EscrowManagerNotSet"

C16_Step ==
    \A c \in Sponsors, v \in Values, d \in Deadlines, m \in Caps :
        (/\ createBounty_err(c, v, d, m) # "ok"
         /\ createBounty(c, v, "QmSchema", d, m)) =>
            UNCHANGED <<bounties, bountyIdCounter, escrows, emTotals,
                        balance>>

\* C16: the errors in every state, no effect of a failing call in every step.
C16_CreateBountyErrors == []C16_Errors /\ [][C16_Step]_vars

\* Time has passed the earliest deadline and no EscrowManager is bound yet: a
\* call with a sufficient value fails for its deadline or for the binding.
C16_Witness ==
    /\ now > 1
    /\ br_escrowManager = Zero
    /\ createBounty_err(Creator, MIN_REWARD, now, 1) = "InvalidDeadline"
    /\ createBounty_err(Creator, MIN_REWARD, MaxTime, 1)
           = "EscrowManagerNotSet"

C17_CancelStep ==
    \A b \in BountyIds :
        (/\ cancelBounty_err(bounties[b].creator, b) = "ok"
         /\ cancelBounty(bounties[b].creator, b)) =>
            /\ bounties'[b].status = "CANCELLED"
            /\ escrows'[b].status = "REFUNDED"
            /\ escrows'[b].amount = escrows[b].amount
            /\ balance'[escrows[b].depositor] =
                   balance[escrows[b].depositor] + escrows[b].amount
            /\ balance'[EM] = balance[EM] - escrows[b].amount
            /\ totalRefunded' = totalRefunded + escrows[b].amount

C17_Cancelled ==
    \A b \in BountyIds :
        bounties[b].status = "CANCELLED" =>
            /\ ~isBountyActive(b)
            /\ \A c \in Callers, cid \in Cids :
                   submitData_err(c, b, cid) = "BountyNotActive"

C17_StaysCancelled ==
    \A b \in BountyIds :
        bounties[b].status = "CANCELLED" => bounties'[b].status = "CANCELLED"

C17_ActiveIsCancellable ==
    \A b \in BountyIds :
        bounties[b].status = "ACTIVE" =>
            cancelBounty_err(bounties[b].creator, b) = "ok"

C17_CancelErr ==
    \A b \in BountyIds :
        bounties[b].status = "ACTIVE" =>
            /\ escrows[b].status = "FUNDED" =>
                   cancelBounty_err(bounties[b].creator, b) = "ok"
            /\ escrows[b].status # "FUNDED" =>
                   cancelBounty_err(bounties[b].creator, b)
                       = "InvalidEscrowStatus"

Due(b) ==
    /\ bounties[b].creator # Zero
    /\ bounties[b].status = "ACTIVE"
    /\ now > bounties[b].deadline

C18_Errors ==
    \A b \in BountyIds, c \in Callers :
        /\ (bounties[b].creator # Zero /\ bounties[b].status # "ACTIVE") =>
               expireBounty_err(c, b) = "InvalidStatus"
        /\ (bounties[b].status = "ACTIVE" /\ now <= bounties[b].deadline) =>
               expireBounty_err(c, b) = "InvalidDeadline"

C18_Step ==
    \A b \in BountyIds, c \in CreatorOrNot :
        /\ (expireBounty_err(c, b) # "ok" /\ expireBounty(c, b)) =>
               UNCHANGED vars
        /\ (expireBounty_err(c, b) = "ok" /\ expireBounty(c, b)) =>
               /\ bounties'[b].status = "EXPIRED"
               /\ escrows'[b].status = "REFUNDED"
               /\ balance'[bounties[b].creator] =
                      balance[bounties[b].creator] + escrows[b].amount
               /\ balance'[EM] = balance[EM] - escrows[b].amount
               /\ c # bounties[b].creator => balance'[c] = balance[c]

C18_SucceedsWhenDue ==
    \A b \in BountyIds, c \in Callers :
        expireBounty_err(c, b) = "ok" <=> Due(b)

C18_SucceedsWhenDueAndFunded ==
    \A b \in BountyIds, c \in Callers :
        /\ expireBounty_err(c, b) = "ok" <=>
               (Due(b) /\ escrows[b].status = "FUNDED")
        /\ (Due(b) /\ escrows[b].status # "FUNDED") =>
               expireBounty_err(c, b) = "InvalidEscrowStatus"

C19_Errors ==
    \A c \in Callers, b \in BountyIds, cid \in Cids :
        LET active == /\ bounties[b].status = "ACTIVE"
                      /\ now <= bounties[b].deadline
                      /\ bounties[b].submissionCount
                             < bounties[b].maxSubmissions
            err == submitData_err(c, b, cid)
        IN  /\ isBountyActive(b) <=> active
            /\ ~active => err = "BountyNotActive"
            /\ (active /\ cid = "") => err = "InvalidCID"
            /\ (active /\ cid # "") => err = "ok"

C19_Ids ==
    /\ Cardinality({s \in SubmissionIds : submissions[s].contributor # Zero})
           = submissionIdCounter
    /\ \A s \in SubmissionIds :
           submissions[s].contributor # Zero <=> s < submissionIdCounter

C19_Step ==
    \A c \in Submitters, b \in BountyIds, cid \in Cids :
        /\ (submitData_err(c, b, cid) # "ok" /\ submitData(c, b, cid)) =>
               UNCHANGED vars
        /\ (submitData_err(c, b, cid) = "ok" /\ submitData(c, b, cid)) =>
               LET id == submissionIdCounter
               IN  /\ submissionIdCounter' = id + 1
                   /\ submissions[id] = NoSubmission
                   /\ submissions' = [submissions EXCEPT ![id] =
                          [bountyId |-> b, contributor |-> c, cid |-> cid,
                           status |-> "VERIFYING"]]
                   /\ bounties' = [bounties EXCEPT ![b].submissionCount =
                                       bounties[b].submissionCount + 1]
                   /\ bountySubmissions'[b] = Append(bountySubmissions[b], id)
                   /\ UNCHANGED <<balance, escrows, emTotals>>

\* C19: the errors and the ids in every state, the effect in every step.
C19_SubmitData == []C19_Errors /\ []C19_Ids /\ [][C19_Step]_vars

\* Two submissions recorded under ids 0 and 1 for one bounty, both counted,
\* the second still VERIFYING.
C19_Witness ==
    \E b \in BountyIds :
        /\ submissionIdCounter = 2
        /\ bountySubmissions[b] = <<0, 1>>
        /\ bounties[b].submissionCount = 2
        /\ submissions[1].status = "VERIFYING"
        /\ submissions[1].contributor = Contributor

\* C20.  Every successful submitData registers a verification request with
\* the FunctionsConsumer: the step creates a request, sent with the
\* submission's cid and its bounty's schemaUri, whose entry in
\* requestIdToSubmission is the new submission's id.
C20_SubmitStep ==
    \A c \in Submitters, b \in BountyIds, cid \in Cids :
        (submitData_err(c, b, cid) = "ok" /\ submitData(c, b, cid)) =>
            \E r \in RequestIds :
                /\ requestArgs[r] = NoRequest
                /\ requestArgs'[r] =
                       [cid |-> cid, schemaUri |-> bounties[b].schemaUri]
                /\ requestIdToSubmission'[r] = submissionIdCounter

C20_SubmitRequestsVerification == [][C20_SubmitStep]_vars

\* C21.  fulfillRequest for a request id with no stored entry fails with
\* UnexpectedRequestID and changes nothing, so nothing reaches the
\* DataRegistry.  A delivery that succeeds found an entry, passed its verdict
\* to handleVerificationResult for that one submission and deleted the entry;
\* an entry is only ever written for a request id that was not handed out
\* before, so a deleted entry never comes back and each request id causes at
\* most one successful handleVerificationResult call.
C21_UnknownFails ==
    \A r \in RequestIds, response \in Responses, e \in DonErrors :
        requestIdToSubmission[r] = 0 =>
            fulfillRequest_err(r, response, e) = "UnexpectedRequestID"

C21_Step ==
    \A r \in RequestIds, response \in Responses, e \in DonErrors :
        fulfillRequest(r, response, e) =>
            IF fulfillRequest_err(r, response, e) = "ok"
            THEN LET s == requestIdToSubmission[r] IN
                 /\ s # 0
                 /\ submissions[s].status = "VERIFYING"
                 /\ submissions'[s].status =
                        (IF fulfillRequest_verified(response, e)
                         THEN "VERIFIED" ELSE "REJECTED")
                 /\ \A t \in SubmissionIds \ {s} :
                        submissions'[t] = submissions[t]
                 /\ requestIdToSubmission'[r] = 0
                 /\ \A response2 \in Responses, e2 \in DonErrors :
                        fulfillRequest_err(r, response2, e2)'
                            = "UnexpectedRequestID"
            ELSE UNCHANGED vars

C21_NoRevival ==
    \A r \in RequestIds :
        /\ requestArgs[r] # NoRequest => requestArgs'[r] = requestArgs[r]
        /\ (requestIdToSubmission[r] = 0 /\ requestIdToSubmission'[r] # 0)
               => requestArgs[r] = NoRequest

C21_ExactlyOnceCallback ==
    []C21_UnknownFails /\ [][C21_Step]_vars /\ [][C21_NoRevival]_vars

\* A request for submission 1 was consumed: its entry is gone and the
\* submission left VERIFYING.
C21_Witness ==
    \E r \in RequestIds :
        /\ requestArgs[r] # NoRequest
        /\ requestIdToSubmission[r] = 0
        /\ submissions[1].status \in {"VERIFIED", "REJECTED"}
        /\ \A q \in RequestIds \ {r} : requestArgs[q] = NoRequest

\* C22.  For a stored request of a VERIFYING submission,
\* fulfillRequest forwards verified = true exactly when the response is
\* nonempty, err is empty and the decoded value is 1, and forwards
\* verified = false for every other response and err.
C22_IsOne(response) ==
    /\ Len(response) >= 32
    /\ SubSeq(response, 1, 32) = encodeUint256(1)

C22_Pending(r) ==
    /\ requestIdToSubmission[r] # 0
    /\ submissions[requestIdToSubmission[r]].status = "VERIFYING"

C22_FalseAlwaysForwarded ==
    \A r \in RequestIds, response \in Responses, e \in DonErrors :
        (C22_Pending(r) /\ ~(Len(response) > 0 /\ e = "" /\ C22_IsOne(response)))
            => fulfillRequest_err(r, response, e) = "ok"

C22_VerdictStep ==
    \A r \in RequestIds, response \in Responses, e \in DonErrors :
        (/\ C22_Pending(r)
         /\ fulfillRequest_err(r, response, e) = "ok"
         /\ fulfillRequest(r, response, e)) =>
            submissions'[requestIdToSubmission[r]].status =
                (IF Len(response) > 0 /\ e = "" /\ C22_IsOne(response)
                 THEN "VERIFIED" ELSE "REJECTED")

C22_ForwardsVerdictAlways ==
    []C22_FalseAlwaysForwarded /\ [][C22_VerdictStep]_vars

\* C23.  The routine fails closed on what it cannot fetch: a run started
\* without a data or schema identifier returns 0 without any request; once
\* every gateway has failed for the schema identifier, or for the data
\* identifier, the run has returned 0; and a run that returned 1 got both
\* documents from a gateway that answered without error.
C23_AllFailed(cid) ==
    \A i \in 1 .. Len(GATEWAYS) :
        \E k \in 1 .. Len(vr_requests) :
            /\ vr_requests[k].gateway = GATEWAYS[i]
            /\ vr_requests[k].cid = cid
            /\ vr_requests[k].error

C23_Fetched(cid) ==
    \E k \in 1 .. Len(vr_requests) :
        vr_requests[k].cid = cid /\ ~vr_requests[k].error

C23_Rejected == vr_pc = "done" /\ vr_result = encodeUint256(0)

C23_FailClosed ==
    /\ (vr_pc # "start" /\ (dataCid = "" \/ schemaCid = "")) =>
           C23_Rejected /\ vr_requests = <<>>
    /\ C23_AllFailed(schemaCid) => C23_Rejected
    /\ C23_AllFailed(dataCid) => C23_Rejected
    /\ vr_result = encodeUint256(1) =>
           /\ C23_Fetched(schemaCid) /\ vr_schema # Undefined
           /\ C23_Fetched(dataCid) /\ vr_data # Undefined

\* The schema was fetched from the second gateway, then both gateways failed
\* for the data, and the run returned 0.
C23_Witness ==
    /\ Len(vr_requests) = 4
    /\ vr_requests[1].error /\ ~vr_requests[2].error
    /\ vr_schema = VALID_SCHEMA
    /\ C23_AllFailed(dataCid)
    /\ C23_Rejected

\* C30.  For each identifier the routine asks the gateways strictly in list
\* order, stops at the first gateway that answers without error and uses
\* that answer, so that no later gateway is asked; the schema is fetched
\* before the data, and when every gateway failed for the schema no request
\* for the data is made.
C30_FirstAnswer ==
    IF \E k \in 1 .. Len(vr_requests) : ~vr_requests[k].error
    THEN CHOOSE k \in 1 .. Len(vr_requests) :
             /\ ~vr_requests[k].error
             /\ \A j \in 1 .. k - 1 : vr_requests[j].error
    ELSE 0

\* The requests made for the schema: up to the first answer without error.
C30_SchemaRequests ==
    IF C30_FirstAnswer = 0 THEN Len(vr_requests) ELSE C30_FirstAnswer

C30_DataRequests == Len(vr_requests) - C30_SchemaRequests

C30_GatewayOrder ==
    /\ C30_SchemaRequests <= Len(GATEWAYS)
    /\ \A k \in 1 .. C30_SchemaRequests :
           /\ vr_requests[k].cid = schemaCid
           /\ vr_requests[k].gateway = GATEWAYS[k]
    /\ C30_DataRequests <= Len(GATEWAYS)
    /\ \A j \in 1 .. C30_DataRequests :
           /\ vr_requests[C30_SchemaRequests + j].cid = dataCid
           /\ vr_requests[C30_SchemaRequests + j].gateway = GATEWAYS[j]
           /\ j < C30_DataRequests =>
                  vr_requests[C30_SchemaRequests + j].error

C30_AnswerUsed ==
    /\ vr_schema = IF C30_FirstAnswer = 0 THEN Undefined
                   ELSE vr_requests[C30_FirstAnswer].data
    /\ vr_data = IF C30_DataRequests > 0
                     /\ ~vr_requests[Len(vr_requests)].error
                 THEN vr_requests[Len(vr_requests)].data
                 ELSE Undefined
    /\ (vr_data # Undefined /\ vr_data # JsonNull) =>
           /\ vr_pc = "done"
           /\ vr_result = encodeUint256(
                  IF validate(vr_requests[Len(vr_requests)].data,
                              vr_requests[C30_FirstAnswer].data)
                  THEN 1 ELSE 0)

C30_SchemaFirst ==
    /\ C23_AllFailed(schemaCid) =>
           \A k \in 1 .. Len(vr_requests) : vr_requests[k].cid # dataCid
    /\ (\E k \in 1 .. Len(vr_requests) : vr_requests[k].cid = dataCid) =>
           /\ vr_schema \notin {Undefined, JsonNull}
           /\ vr_requests[1].cid = schemaCid

C30_GatewayFallThrough ==
    C30_GatewayOrder /\ C30_AnswerUsed /\ C30_SchemaFirst

\* The first gateway failed for the schema and the second answered; the
\* first gateway then answered for the data, no further request was made
\* and the run returned 1 for that schema and that data.
C30_Witness ==
    /\ Len(GATEWAYS) = 2
    /\ Len(vr_requests) = 3
    /\ vr_requests[1].error /\ ~vr_requests[2].error
    /\ vr_requests[2].data = VALID_SCHEMA
    /\ vr_requests[3].gateway = GATEWAYS[1]
    /\ vr_requests[3].data = VALID_DATA
    /\ vr_pc = "done"
    /\ vr_result = encodeUint256(1)

\* C24.  A run whose schema document is not a JSON object (a bare string, a
\* number, ...) returns 0, never 1.
C24_MalformedSchemaRejected ==
    (vr_pc = "done" /\ vr_schema # Undefined /\ vr_schema.t # "object") =>
        vr_result = encodeUint256(0)

\* C25.  validate(data, schema) is true exactly when data satisfies every
\* constraint the schema states, at every level of nesting.  What a schema
\* states is spelled out by C25_Satisfies, keyword by keyword: two JSON
\* values are the same when they are of one kind and equal, objects being
\* the same when they hold the same keys with the same values; with
\* additionalProperties false every key of an object has to be declared under
\* properties.
RECURSIVE C25_Same(_, _)
C25_Same(a, b) ==
    /\ a.t = b.t
    /\ CASE a.t = "array" ->
              /\ Len(a.items) = Len(b.items)
              /\ \A i \in 1 .. Len(a.items) :
                     C25_Same(a.items[i], b.items[i])
         [] a.t = "object" ->
              /\ \A i \in 1 .. Len(a.pairs) : hasKey(b, a.pairs[i][1])
              /\ \A i \in 1 .. Len(b.pairs) :
                     /\ hasKey(a, b.pairs[i][1])
                     /\ C25_Same(getKey(a, b.pairs[i][1]), b.pairs[i][2])
         [] OTHER -> a = b

C25_Declared(schema) ==
    IF hasKey(schema, "properties")
    THEN {getKey(schema, "properties").pairs[i][1] :
              i \in 1 .. Len(getKey(schema, "properties").pairs)}
    ELSE {}

RECURSIVE C25_Satisfies(_, _)
C25_Satisfies(d, s) ==
    /\ hasKey(s, "type") =>
          LET name == Join(getKey(s, "type").chars) IN
          IF name = "integer" THEN d.t = "number" /\ d.twice % 2 = 0
          ELSE d.t = name
    /\ hasKey(s, "enum") =>
          \E i \in 1 .. Len(getKey(s, "enum").items) :
              C25_Same(getKey(s, "enum").items[i], d)
    /\ hasKey(s, "const") => C25_Same(getKey(s, "const"), d)
    /\ (d.t = "number" /\ hasKey(s, "minimum")) =>
          d.twice >= getKey(s, "minimum").twice
    /\ (d.t = "number" /\ hasKey(s, "maximum")) =>
          d.twice <= getKey(s, "maximum").twice
    /\ (d.t = "string" /\ hasKey(s, "minLength")) =>
          2 * Len(d.chars) >= getKey(s, "minLength").twice
    /\ (d.t = "string" /\ hasKey(s, "maxLength")) =>
          2 * Len(d.chars) <= getKey(s, "maxLength").twice
    /\ (d.t = "string" /\ hasKey(s, "pattern")) =>
          RegExp_test(getKey(s, "pattern").chars, d.chars)
    /\ (d.t = "array" /\ hasKey(s, "minItems")) =>
          2 * Len(d.items) >= getKey(s, "minItems").twice
    /\ (d.t = "array" /\ hasKey(s, "maxItems")) =>
          2 * Len(d.items) <= getKey(s, "maxItems").twice
    /\ (d.t = "array" /\ hasKey(s, "items")) =>
          \A i \in 1 .. Len(d.items) :
              C25_Satisfies(d.items[i], getKey(s, "items"))
    /\ (d.t = "object" /\ hasKey(s, "required")) =>
          \A i \in 1 .. Len(getKey(s, "required").items) :
              hasKey(d, Join(getKey(s, "required").items[i].chars))
    /\ (d.t = "object" /\ hasKey(s, "properties")) =>
          \A i \in 1 .. Len(d.pairs) :
              d.pairs[i][1] \in C25_Declared(s) =>
                  C25_Satisfies(d.pairs[i][2],
                                getKey(getKey(s, "properties"),
                                       d.pairs[i][1]))
    /\ (/\ d.t = "object"
        /\ hasKey(s, "additionalProperties")
        /\ getKey(s, "additionalProperties") = Bool(FALSE)) =>
          \A i \in 1 .. Len(d.pairs) : d.pairs[i][1] \in C25_Declared(s)

C25_ValidateIsSatisfies ==
    (/\ vr_pc = "done"
     /\ vr_schema \in Schemas
     /\ vr_data \in Docs \ {JsonNull}) =>
        (vr_result = encodeUint256(1)
            <=> C25_Satisfies(vr_data, vr_schema))

\* C26.  After every operation the value the EscrowManager holds, as
\* getTotalBalance and getStats report it, is the sum of the amounts of the
\* FUNDED escrows and is totalDeposits - totalReleased - totalRefunded; a
\* plain value transfer to the EscrowManager changes nothing.
C26_Holdings ==
    /\ getTotalBalance = FundedSum
    /\ getStats.currentBalance = getTotalBalance
    /\ getStats.currentBalance =
           getStats.deposits - getStats.released - getStats.refunded

C26_ReceiveStep ==
    \A c \in EscrowCallers, v \in Values : EM_receive(c, v) => UNCHANGED vars

C26_CustodyBalance == []C26_Holdings /\ [][C26_ReceiveStep]_vars

\* Two escrows went separate ways: one was paid out or refunded, the other
\* is still funded, and the EscrowManager holds exactly the latter's amount.
C26_Witness ==
    \E a, b \in EscrowIds :
        /\ escrows[a].status \in {"RELEASED", "REFUNDED"}
        /\ escrows[a].amount > 0
        /\ escrows[b].status = "FUNDED"
        /\ getTotalBalance = escrows[b].amount
        /\ getTotalBalance > 0

\* C27.  The callback for a VERIFYING submission, delivered by the
\* FunctionsConsumer with either verdict and whatever the status of the
\* bounty, is accepted and leaves the submission VERIFIED or REJECTED.
C27_DeliveryAccepted ==
    \A s \in SubmissionIds, verified \in BOOLEAN :
        submissions[s].status = "VERIFYING" =>
            handleVerificationResult_err(dr_functionsConsumer, s, verified)
                = "ok"

C27_DeliveryStep ==
    \A s \in SubmissionIds, verified \in BOOLEAN :
        (/\ submissions[s].status = "VERIFYING"
         /\ handleVerificationResult_err(dr_functionsConsumer, s, verified)
                = "ok"
         /\ handleVerificationResult(dr_functionsConsumer, s, verified)) =>
            submissions'[s].status \in {"VERIFIED", "REJECTED"}

C27_CallbackIsTerminal ==
    []C27_DeliveryAccepted /\ [][C27_DeliveryStep]_vars

\* C28.  Every state-changing entry point of the four contracts appends at
\* least one event whenever it succeeds, the setters that rebind addresses
\* and the settings of the FunctionsConsumer included.
C28_Appends(err, events) == err = "ok" => events # <<>>

C28_EventOnSuccess ==
    \A c \in AccessCallers, b \in BountyIds, s \in SubmissionIds :
        /\ C28_Appends(deposit_err(c, MIN_REWARD, b, Creator), deposit_events)
        /\ C28_Appends(increaseDeposit_err(c, 1, b), increaseDeposit_events)
        /\ C28_Appends(release_err(c, b, Contributor), release_events)
        /\ C28_Appends(refund_err(c, b), refund_events)
        /\ C28_Appends(emergencyWithdraw_err(c, b, Contributor),
                       emergencyWithdraw_events)
        /\ C28_Appends(onlyOwner_err(c), EM_setBountyRegistry_events)
        /\ C28_Appends(onlyOwner_err(c), EM_setDataRegistry_events)
        /\ C28_Appends(onlyOwner_err(c), BR_setDataRegistry_events)
        /\ C28_Appends(onlyOwner_err(c), BR_setEscrowManager_events)
        /\ C28_Appends(createBounty_err(Creator, MIN_REWARD, MaxTime, 1),
                       createBounty_events)
        /\ C28_Appends(cancelBounty_err(Creator, b), cancelBounty_events)
        /\ C28_Appends(completeBounty_err(c, b), completeBounty_events)
        /\ C28_Appends(increaseReward_err(Creator, 1, b),
                       increaseReward_events)
        /\ C28_Appends(extendDeadline_err(Creator, b, MaxTime),
                       extendDeadline_events)
        /\ C28_Appends(expireBounty_err(c, b), expireBounty_events)
        /\ C28_Appends(incrementSubmissions_err(c, b),
                       incrementSubmissions_events)
        /\ C28_Appends(submitData_err(Contributor, b, "QmData"),
                       submitData_events)
        /\ \A v \in BOOLEAN :
               C28_Appends(handleVerificationResult_err(c, s, v),
                           handleVerificationResult_events(v))
        /\ C28_Appends(requestVerification_err("QmData", "QmSchema"),
                       requestVerification_events)
        /\ C28_Appends(updateVerificationSource_err(c),
                       updateVerificationSource_events)
        /\ C28_Appends(updateConfig_err(c), updateConfig_events)
        /\ C28_Appends(onlyOwner_err(c), setFunctionsConsumer_events)
        /\ C28_Appends(updateDataRegistry_err(c), updateDataRegistry_events)

\* C29.  A verified callback for a submission whose bounty is CANCELLED or
\* EXPIRED fails, each time it is delivered: the contributor is not paid and
\* the bounty and its escrow, which is REFUNDED, stay as they are.
C29_Late(s) ==
    /\ submissions[s].contributor # Zero
    /\ bounties[submissions[s].bountyId].status \in {"CANCELLED", "EXPIRED"}

C29_LateFails ==
    \A s \in SubmissionIds :
        C29_Late(s) =>
            /\ handleVerificationResult_err(FC, s, TRUE) # "ok"
            /\ escrows[submissions[s].bountyId].status = "REFUNDED"

C29_LateStep ==
    \A r \in RequestIds, response \in Responses, e \in DonErrors :
        (/\ requestIdToSubmission[r] # 0
         /\ C29_Late(requestIdToSubmission[r])
         /\ Len(response) >= 32
         /\ fulfillRequest_verified(response, e)
         /\ fulfillRequest(r, response, e)) =>
            UNCHANGED <<balance, bounties, escrows, submissions,
                        requestIdToSubmission>>

C29_LateCallback == []C29_LateFails /\ [][C29_LateStep]_vars

\* A request for submission 1 is stored, the submission is VERIFYING, its
\* bounty was cancelled or has expired, and the DataRegistry holds enough to
\* pay the reward.
C29_Witness ==
    \E r \in RequestIds :
        /\ requestIdToSubmission[r] = 1
        /\ submissions[1].status = "VERIFYING"
        /\ C29_Late(1)
        /\ balance[DR] >= bounties[submissions[1].bountyId].reward
        /\ balance[Contributor] = InitialFunds

\* C31.  A run of the routine makes at most four HTTP requests, at most two
\* for the schema identifier and at most two for the data identifier, and
\* at most two in all (one for each identifier) when a gateway override is
\* given; that is below the limit of five requests for one execution.
C31_RequestsFor(cid) ==
    Cardinality({k \in 1 .. Len(vr_requests) : vr_requests[k].cid = cid})

C31_RequestBudget ==
    /\ Len(vr_requests) <= 4
    /\ Len(vr_requests) < MAX_HTTP_REQUESTS
    /\ C31_RequestsFor(schemaCid) <= 2
    /\ C31_RequestsFor(dataCid) <= 2
    /\ gatewayOverride # "" =>
           /\ Len(vr_requests) <= 2
           /\ C31_RequestsFor(schemaCid) <= 1
           /\ C31_RequestsFor(dataCid) <= 1

\* A finished run that made four requests: the first default gateway failed
\* for the schema and for the data, the second answered both times.
C31_Witness ==
    /\ vr_pc = "done"
    /\ gatewayOverride = ""
    /\ Len(vr_requests) = 4
    /\ vr_requests[1].error /\ ~vr_requests[2].error
    /\ vr_requests[3].error /\ ~vr_requests[4].error

\* C32.  A token stored by a successful requestVerification, for any
\* submission id of the DataRegistry (the first one, 0, included), can be
\* delivered: right after the call the entry names that submission, and no
\* fulfillRequest for the token fails with UnexpectedRequestID.
C32_StoreStep ==
    \A c \in Requesters, s \in SubmissionIds, cid \in Cids,
       u \in SchemaUris, r \in RequestIds :
        (/\ r = NextRequestId
         /\ requestVerification_err(cid, u) = "ok"
         /\ requestVerification(c, s, cid, u)) =>
            /\ requestArgs'[r] = [cid |-> cid, schemaUri |-> u]
            /\ \A response \in Responses, e \in DonErrors :
                   fulfillRequest_err(r, response, e)'
                       # "UnexpectedRequestID"

C32_StoredTokenDelivers == [][C32_StoreStep]_vars

\* C33.  A request is only ever registered by the DataRegistry, for a
\* submission it has accepted, with that submission's cid and the schemaUri
\* of its bounty: every entry of requestIdToSubmission names an accepted
\* submission and carries exactly its references, and no other caller gets
\* a request registered.
C33_EntriesGenuine ==
    \A r \in RequestIds :
        requestIdToSubmission[r] # 0 =>
            LET sub == submissions[requestIdToSubmission[r]] IN
            /\ sub.contributor # Zero
            /\ requestArgs[r].cid = sub.cid
            /\ requestArgs[r].schemaUri = bounties[sub.bountyId].schemaUri

C33_RegisterStep ==
    \A c \in Requesters, s \in SubmissionIds, cid \in Cids,
       u \in SchemaUris :
        (/\ requestVerification_err(cid, u) = "ok"
         /\ requestVerification(c, s, cid, u)) =>
            /\ c = DR
            /\ submissions[s].contributor # Zero
            /\ cid = submissions[s].cid
            /\ u = bounties[submissions[s].bountyId].schemaUri

C33_OnlyCoordinatorRegisters ==
    []C33_EntriesGenuine /\ [][C33_RegisterStep]_vars

\* C34.  For every bounty whose escrow is FUNDED the stored reward equals
\* the escrow amount.  createBounty sets both to the attached value;
\* increaseReward is refused to a caller who is not the creator, for a
\* bounty that is not ACTIVE, and with InsufficientReward for a value of 0,
\* and when it succeeds it adds the attached value to the reward, to the
\* escrow amount and to totalDeposits.
C34_RewardIsEscrow ==
    \A b \in BountyIds :
        escrowOf(b).status = "FUNDED" =>
            bounties[b].reward = escrows[b].amount

C34_Refusals ==
    \A c \in CreatorOrNot, v \in Values, b \in BountyIds :
        bounties[b].creator # Zero =>
            LET err == increaseReward_err(c, v, b) IN
            /\ c # bounties[b].creator => err = "Unauthorized"
            /\ (c = bounties[b].creator /\ bounties[b].status # "ACTIVE")
                   => err = "InvalidStatus"
            /\ (c = bounties[b].creator /\ bounties[b].status = "ACTIVE"
                    /\ v = 0) => err = "InsufficientReward"

C34_CreateStep ==
    \A c \in Sponsors, v \in Values, d \in Deadlines, m \in Caps :
        (/\ createBounty_err(c, v, d, m) = "ok"
         /\ createBounty(c, v, "QmSchema", d, m)) =>
            /\ bounties'[bountyIdCounter].reward = v
            /\ escrows'[bountyIdCounter].amount = v
            /\ escrows'[bountyIdCounter].status = "FUNDED"

C34_IncreaseStep ==
    \A c \in CreatorOrNot, v \in Values, b \in BountyIds :
        increaseReward(c, v, b) =>
            IF increaseReward_err(c, v, b) = "ok"
            THEN /\ c = bounties[b].creator
                 /\ bounties[b].status = "ACTIVE"
                 /\ v > 0
                 /\ bounties'[b].reward = bounties[b].reward + v
                 /\ escrows'[b].amount = escrows[b].amount + v
                 /\ totalDeposits' = totalDeposits + v
            ELSE UNCHANGED vars

C35_Verified(b) ==
    {s \in SubmissionIds :
        /\ submissions[s].contributor # Zero
        /\ submissions[s].bountyId = b
        /\ submissions[s].status = "VERIFIED"}

C35_OneWinner ==
    \A b \in BountyIds :
        /\ Cardinality(C35_Verified(b)) <= 1
        /\ bounties[b].status = "COMPLETED" <=> C35_Verified(b) # {}

\* Two submissions of one bounty: one is VERIFIED, the bounty is COMPLETED,
\* and a verified callback for the other, still VERIFYING, is refused
\* although the DataRegistry could pay it.
C35_Witness ==
    \E s \in SubmissionIds, t \in SubmissionIds :
        /\ s # t
        /\ submissions[s].status = "VERIFIED"
        /\ submissions[t].contributor # Zero
        /\ submissions[t].bountyId = submissions[s].bountyId
        /\ submissions[t].status = "VERIFYING"
        /\ bounties[submissions[s].bountyId].status = "COMPLETED"
        /\ balance[DR] >= bounties[submissions[s].bountyId].reward
        /\ handleVerificationResult_err(FC, t, TRUE) # "ok"

\* C36.  The submissionCount of every bounty is the number of submission
\* records the DataRegistry holds for it, which is the length of
\* bountySubmissions[bountyId]; a rejected submission still counts, and
\* submissionCount never decreases.
C36_Records(b) ==
    {s \in SubmissionIds :
        submissions[s].contributor # Zero /\ submissions[s].bountyId = b}

C36_CountIsLength ==
    \A b \in BountyIds :
        /\ bounties[b].submissionCount = Len(bountySubmissions[b])
        /\ bounties[b].submissionCount = Cardinality(C36_Records(b))
        /\ \A i \in 1 .. Len(bountySubmissions[b]) :
               bountySubmissions[b][i] \in C36_Records(b)

C36_NeverDecreases ==
    \A b \in BountyIds :
        bounties'[b].submissionCount >= bounties[b].submissionCount

C37_Withdrawn(b) ==
    /\ bounties[b].status = "ACTIVE"
    /\ escrowOf(b).status = "REFUNDED"

C37_WithdrawStep ==
    \A c \in OwnerOrNot, b \in BountyIds, r \in WithdrawRecipients :
        (/\ emergencyWithdraw_err(c, b, r) = "ok"
         /\ bounties[b].status = "ACTIVE"
         /\ emergencyWithdraw(c, b, r)) =>
            /\ c = Owner
            /\ escrows[b].status = "FUNDED"
            /\ C37_Withdrawn(b)'
            /\ bounties' = bounties
            /\ balance' = Transfer(balance, EM, r, escrows[b].amount)
            /\ escrows[b].amount > 0

C37_Stuck ==
    \A b \in BountyIds :
        C37_Withdrawn(b) =>
            /\ \A c \in CreatorOrNot : cancelBounty_err(c, b) # "ok"
            /\ cancelBounty_err(bounties[b].creator, b)
                   = "InvalidEscrowStatus"
            /\ \A c \in CreatorOrNot : expireBounty_err(c, b) # "ok"
            /\ now > bounties[b].deadline =>
                   \A c \in CreatorOrNot :
                       expireBounty_err(c, b) = "InvalidEscrowStatus"
            /\ \A c \in OwnerOrNot, r \in WithdrawRecipients :
                   emergencyWithdraw_err(c, b, r) # "ok"
            /\ refund_err(BR, b) = "InvalidEscrowStatus"
            /\ \A r \in Addresses : release_err(DR, b, r) # "ok"

C37_StuckStep ==
    \A b \in BountyIds :
        C37_Withdrawn(b) =>
            /\ escrows'[b] = escrows[b]
            /\ \A c \in CreatorOrNot :
                   (cancelBounty(c, b) \/ expireBounty(c, b)) =>
                       UNCHANGED vars
            /\ bounties'[b].status \notin {"CANCELLED", "EXPIRED"}

C37_PaidOnce ==
    balance'[EM] < balance[EM] =>
        \E b \in BountyIds :
            /\ escrows[b].status = "FUNDED"
            /\ escrows'[b].status # "FUNDED"
            /\ balance[EM] - balance'[EM] = escrows[b].amount

C37_WithdrawnBountyStuck ==
    /\ []C37_Stuck
    /\ [][C37_WithdrawStep]_vars
    /\ [][C37_StuckStep]_vars
    /\ [][C37_PaidOnce]_vars

\* The owner withdrew the escrow of an ACTIVE bounty to the DataRegistry;
\* the deadline has passed, and the bounty is still ACTIVE.
C37_Witness ==
    \E b \in BountyIds :
        /\ C37_Withdrawn(b)
        /\ now > bounties[b].deadline
        /\ balance[EM] = 0
        /\ balance[DR] >= escrows[b].amount
        /\ totalRefunded = escrows[b].amount
        /\ balance[bounties[b].creator] < InitialFunds

\* C38.  While the value transfer of release, refund or emergencyWithdraw
\* (made directly or through cancelBounty or expireBounty) is in progress,
\* the escrow it pays out is already RELEASED or REFUNDED, whatever the
\* recipient calls: its release, refund and emergencyWithdraw calls fail,
\* for every escrow, and so do its cancelBounty and expireBounty calls;
\* nothing more leaves the EscrowManager before the recipient returns.
C38_Observed ==
    em_transfer # NoTransfer =>
        /\ em_entered
        /\ escrows[em_transfer.bountyId].status \in {"RELEASED", "REFUNDED"}
        /\ escrows[em_transfer.bountyId].amount = em_transfer.amount

C38_ReentrantFails ==
    em_transfer # NoTransfer =>
        /\ \A b \in EscrowIds, r \in ReentryRecipients :
               /\ release_err(em_transfer.to, b, r) # "ok"
               /\ emergencyWithdraw_err(em_transfer.to, b, r) # "ok"
        /\ \A b \in EscrowIds : refund_err(em_transfer.to, b) # "ok"
        /\ \A b \in BountyIds :
               /\ cancelBounty_err(em_transfer.to, b) # "ok"
               /\ expireBounty_err(em_transfer.to, b) # "ok"

C38_NoSecondTransfer ==
    em_transfer # NoTransfer =>
        /\ balance' = balance
        /\ escrows' = escrows
        /\ bounties' = bounties
        /\ <<totalDeposits, totalReleased, totalRefunded>>' =
               <<totalDeposits, totalReleased, totalRefunded>>

C38_ReentrancySafe ==
    /\ []C38_Observed
    /\ []C38_ReentrantFails
    /\ [][C38_NoSecondTransfer]_vars

\* The owner's emergencyWithdraw of escrow 1 is paying the creator of
\* bounty 0, which is ACTIVE with a FUNDED escrow: the creator's cancelBounty
\* would pass every check of the BountyRegistry and of refund, and is
\* stopped by the guard of the EscrowManager alone.
C38_Witness ==
    /\ em_transfer = [to |-> Creator, bountyId |-> 1, amount |-> 1]
    /\ escrows[1].status = "REFUNDED"
    /\ balance[Creator] = InitialFunds - MIN_REWARD + 1
    /\ bounties[0].creator = Creator
    /\ bounties[0].status = "ACTIVE"
    /\ escrows[0].status = "FUNDED"
    /\ em_bountyRegistry = BR
    /\ ~br_entered
    /\ cancelBounty_err(Creator, 0) = "ReentrancyGuardReentrantCall"

\* C39.  A schema for objects that sets additionalProperties to false, with
\* or without properties, rejects every object holding a key that is not
\* declared under properties: a finished run with such a schema and such
\* data returned 0.
C39_Closed(schema) ==
    /\ schema.t = "object"
    /\ hasKey(schema, "additionalProperties")
    /\ getKey(schema, "additionalProperties") = Bool(FALSE)

C39_HasUndeclaredKey(data, schema) ==
    /\ data.t = "object"
    /\ \E i \in 1 .. Len(data.pairs) :
           ~(/\ hasKey(schema, "properties")
             /\ getKey(schema, "properties").t = "object"
             /\ hasKey(getKey(schema, "properties"), data.pairs[i][1]))

C39_ClosedSchemaRejects ==
    (/\ vr_pc = "done"
     /\ vr_schema \in Schemas
     /\ vr_data \in Data
     /\ C39_Closed(vr_schema)
     /\ C39_HasUndeclaredKey(vr_data, vr_schema)) =>
        vr_result = encodeUint256(0)

\* C40.  extendDeadline succeeds exactly for the creator of an ACTIVE bounty
\* with a new deadline greater than the current deadline and greater than
\* the current time, and then stores the new deadline; a new deadline that
\* is not greater than both is refused with InvalidDeadline, and a refused
\* call changes nothing.  No other operation changes the deadline of a
\* bounty, so a deadline never decreases.
C40_Accepted(c, b, d) ==
    /\ bounties[b].creator # Zero
    /\ c = bounties[b].creator
    /\ bounties[b].status = "ACTIVE"
    /\ d > bounties[b].deadline
    /\ d > now

C40_Errors ==
    \A c \in CreatorOrNot, b \in BountyIds, d \in Deadlines :
        /\ extendDeadline_err(c, b, d) = "ok" <=> C40_Accepted(c, b, d)
        /\ (/\ c = bounties[b].creator
            /\ bounties[b].status = "ACTIVE"
            /\ (d <= bounties[b].deadline \/ d <= now)) =>
               extendDeadline_err(c, b, d) = "InvalidDeadline"

C40_ExtendStep ==
    \A c \in CreatorOrNot, b \in BountyIds, d \in Deadlines :
        extendDeadline(c, b, d) =>
            IF C40_Accepted(c, b, d)
            THEN /\ bounties' = [bounties EXCEPT ![b].deadline = d]
                 /\ UNCHANGED <<now, balance, emVars, drVars, fcVars>>
            ELSE UNCHANGED vars

C40_OnlyExtendChanges ==
    \A b \in BountyIds :
        (bounties[b].creator # Zero
            /\ bounties'[b].deadline # bounties[b].deadline) =>
            /\ bounties'[b].deadline > bounties[b].deadline
            /\ extendDeadline(bounties[b].creator, b, bounties'[b].deadline)
            /\ C40_Accepted(bounties[b].creator, b, bounties'[b].deadline)

C40_DeadlineOnlyGrows ==
    /\ []C40_Errors
    /\ [][C40_ExtendStep]_vars
    /\ [][C40_OnlyExtendChanges]_vars

\* A bounty created with the deadline MaxTime - 1 holds the deadline MaxTime
\* after the latest extension possible, made at the old deadline; no further
\* extension is accepted.
C40_Witness ==
    \E b \in BountyIds :
        /\ bounties[b].status = "ACTIVE"
        /\ bounties[b].deadline = MaxTime
        /\ now = MaxTime
        /\ \A d \in Deadlines :
               extendDeadline_err(bounties[b].creator, b, d)
                   = "InvalidDeadline"

====
